---- MODULE Spec2Model ----
(***************************************************************************)
(* The Panda bytecode virtual machine (src/src/vm.rs) and its instruction  *)
(* encoding (src/src/code.rs) as a state machine.                          *)
(*                                                                         *)
(* The state is the VirtualMachine struct (vm), the Bytecode it was built  *)
(* from, the build profile (Rust's unsigned subtraction panics in a debug  *)
(* build and wraps in a release build) and the outcome of run().  One      *)
(* action is one iteration of the dispatch loop of run(): the fetch of an  *)
(* opcode and the whole match arm that executes it.                        *)
(*                                                                         *)
(* Representation choices, none of which changes behaviour:                *)
(*  - vm.stack is the 2048-slot array without its trailing Null slots      *)
(*    (slot i is stack[i + 1]; a slot past the sequence holds Null);       *)
(*  - a ClosureObject names its CompiledFunctionObject by reference:       *)
(*    func = MainFn for the main function, else the index of the constant  *)
(*    it was cloned from (constants are immutable);                        *)
(*  - usize::MAX (2^64 - 1) is written USIZE_MAX.                          *)
(***************************************************************************)
EXTENDS Integers, Sequences, FiniteSets, TLC

\* ------------------------------------------------------------------ limits

STACK_SIZE == 2048

GLOBAL_SIZE == 65536

MAX_FRAMES == 1024

\* Stands for usize::MAX = 2^64 - 1, which the model checker's integers cannot
\* hold.  The program only compares it with sizes below 2^17 (sp >= STACK_SIZE,
\* idx >= len), and every such comparison comes out as with 2^64 - 1.
USIZE_MAX == 2^30 - 1

\* ------------------------------------------------------------- code.rs

\* The Definition table, indexed by opcode byte + 1 (enum Opcode is repr(u8),
\* numbered in declaration order).
DEFINITIONS ==
    << [name |-> "Constant", operand_widths |-> <<2>>],
       [name |-> "Pop", operand_widths |-> <<>>],
       [name |-> "PopNoRet", operand_widths |-> <<>>],
       [name |-> "Dup", operand_widths |-> <<>>],
       [name |-> "Add", operand_widths |-> <<>>],
       [name |-> "Sub", operand_widths |-> <<>>],
       [name |-> "Mul", operand_widths |-> <<>>],
       [name |-> "Div", operand_widths |-> <<>>],
       [name |-> "Mod", operand_widths |-> <<>>],
       [name |-> "BitXor", operand_widths |-> <<>>],
       [name |-> "BitAnd", operand_widths |-> <<>>],
       [name |-> "BitOr", operand_widths |-> <<>>],
       [name |-> "Shr", operand_widths |-> <<>>],
       [name |-> "Shl", operand_widths |-> <<>>],
       [name |-> "True", operand_widths |-> <<>>],
       [name |-> "False", operand_widths |-> <<>>],
       [name |-> "Nil", operand_widths |-> <<>>],
       [name |-> "Equal", operand_widths |-> <<>>],
       [name |-> "NotEqual", operand_widths |-> <<>>],
       [name |-> "GreaterThan", operand_widths |-> <<>>],
       [name |-> "GreaterThanEqual", operand_widths |-> <<>>],
       [name |-> "Minus", operand_widths |-> <<>>],
       [name |-> "Bang", operand_widths |-> <<>>],
       [name |-> "And", operand_widths |-> <<>>],
       [name |-> "Or", operand_widths |-> <<>>],
       [name |-> "Jump", operand_widths |-> <<2>>],
       [name |-> "JumpNotTruthy", operand_widths |-> <<2>>],
       [name |-> "GetGlobal", operand_widths |-> <<2>>],
       [name |-> "SetGlobal", operand_widths |-> <<2>>],
       [name |-> "Array", operand_widths |-> <<2>>],
       [name |-> "Dict", operand_widths |-> <<2>>],
       [name |-> "Index", operand_widths |-> <<>>],
       [name |-> "Range", operand_widths |-> <<1>>],
       [name |-> "ReturnValue", operand_widths |-> <<>>],
       [name |-> "Call", operand_widths |-> <<1>>],
       [name |-> "Return", operand_widths |-> <<>>],
       [name |-> "GetLocal", operand_widths |-> <<1>>],
       [name |-> "SetLocal", operand_widths |-> <<1>>],
       [name |-> "GetBuiltin", operand_widths |-> <<1>>],
       [name |-> "Closure", operand_widths |-> <<2, 1>>],
       [name |-> "GetFree", operand_widths |-> <<1>>],
       [name |-> "CurrentClosure", operand_widths |-> <<>>],
       [name |-> "Method", operand_widths |-> <<8, 1, 1>>],
       [name |-> "Scope", operand_widths |-> <<1>>],
       [name |-> "Constructor", operand_widths |-> <<1>>],
       [name |-> "ClassMember", operand_widths |-> <<8, 1>>],
       [name |-> "Delete", operand_widths |-> <<2>>],
       [name |-> "Next", operand_widths |-> <<>>],
       [name |-> "Start", operand_widths |-> <<>>],
       [name |-> "JumpEnd", operand_widths |-> <<2, 2>>],
       [name |-> "String", operand_widths |-> <<1>>] >>

\* `op as u8`: the opcode's byte.
OpByte(name) == (CHOOSE i \in 1..Len(DEFINITIONS) : DEFINITIONS[i].name = name) - 1

\* TryInto::<Opcode>::try_into(byte) succeeds exactly on the bytes of the enum.
IsOpcode(byte) == byte \in 0..(Len(DEFINITIONS) - 1)

\* The opcode a byte decodes to.
OpName(byte) == DEFINITIONS[byte + 1].name

\* lookup_definition(op).operand_widths
operand_widths(name) == DEFINITIONS[OpByte(name) + 1].operand_widths

RECURSIVE SumSeq(_)
SumSeq(s) == IF s = <<>> THEN 0 ELSE Head(s) + SumSeq(Tail(s))

\* The total operand width a Definition declares.
operand_width(name) == SumSeq(operand_widths(name))

\* to_le_bytes in place of to_be_bytes.
RECURSIVE to_le_bytes(_, _)
to_le_bytes(v, w) ==
    IF w = 0 THEN <<>> ELSE <<v % 256>> \o to_le_bytes(v \div 256, w - 1)

\* to_be_bytes of an unsigned value, w bytes wide (the low w bytes).
RECURSIVE to_be_bytes(_, _)
to_be_bytes(v, w) ==
    IF w = 0 THEN <<>> ELSE Append(to_be_bytes(v \div 256, w - 1), v % 256)

\* make's loop over the operands: operand i is written big-endian at its
\* offset; a width without an operand keeps the zero bytes of from_elem.
RECURSIVE make_operands(_, _, _)
make_operands(widths, operands, i) ==
    IF i > Len(widths) THEN <<>>
    ELSE (IF i <= Len(operands)
             THEN to_be_bytes(operands[i], widths[i])
             ELSE [k \in 1..widths[i] |-> 0])
         \o make_operands(widths, operands, i + 1)

\* make(op, operands): the opcode byte followed by the operands.
make(op, operands) ==
    <<OpByte(op)>> \o make_operands(operand_widths(op), operands, 1)

\* u16::from_le_bytes in place of from_be_bytes.
read_u16_le(ins, offset) == ins[offset + 2] * 256 + ins[offset + 1]

\* read_u8 / read_u16 (vm.rs calls them read_uint8 / read_uint16): ins is the
\* byte vector, offset is 0-based.
read_u8(ins, offset) == ins[offset + 1]

read_u16(ins, offset) == ins[offset + 1] * 256 + ins[offset + 2]

read_bool(ins, offset) == ins[offset + 1] # 0

\* read_operands(def, ins): the operands and the number of bytes read.
\* read_u64 is u64::from_be_bytes of the eight bytes at the offset.
RECURSIVE read_operands(_, _)
read_operands(widths, ins) ==
    LET read_u64(offset) ==
            ((((((ins[offset + 1] * 256 + ins[offset + 2]) * 256
                 + ins[offset + 3]) * 256 + ins[offset + 4]) * 256
               + ins[offset + 5]) * 256 + ins[offset + 6]) * 256
             + ins[offset + 7]) * 256 + ins[offset + 8]
        width == widths[Len(widths)]
        front == read_operands(SubSeq(widths, 1, Len(widths) - 1), ins)
    IN  IF widths = <<>> THEN [operands |-> <<>>, offset |-> 0]
        ELSE [operands |->
                Append(front.operands,
                       CASE width = 1 -> read_u8(ins, front.offset)
                         [] width = 2 -> read_u16(ins, front.offset)
                         [] width = 8 -> read_u64(front.offset)
                         [] OTHER -> 0),
              offset |-> front.offset + width]

\* Whether ins[offset .. offset + n] is inside the vector (else the slice or
\* index panics).
InBounds(ins, offset, n) == offset + n <= Len(ins)

\* Concatenation of a sequence of instructions (Vec::concat).
RECURSIVE concat(_)
concat(ss) == IF ss = <<>> THEN <<>> ELSE Head(ss) \o concat(Tail(ss))

\* ------------------------------------------------------------- objects

NULL == [kind |-> "Null"]

TrueObj == [kind |-> "Bool", value |-> TRUE]

FalseObj == [kind |-> "Bool", value |-> FALSE]

IntObject(n) == [kind |-> "Int", value |-> n]

\* Object::Str: the value is the sequence of the string's chars, each char its
\* Unicode code point.
StrObject(s) == [kind |-> "Str", value |-> s]

CharObject(c) == [kind |-> "Char", value |-> c]

\* Object::Hash: pairs is the map's content, one HashPair per hash key, each
\* with the hash it is stored under.
HashObject(pairs) == [kind |-> "Hash", pairs |-> pairs]

ArrayObject(es) == [kind |-> "Array", elements |-> es]

CompiledFunctionObject(ins, nl, np) ==
    [kind |-> "CompiledFunction", instructions |-> ins,
     num_locals |-> nl, num_parameters |-> np]

\* ClosureObject { func, free }; func is <<>> for the main function and <<i>>
\* for the CompiledFunction cloned from constants[i].
ClosureObject(f, fr) == [kind |-> "Closure", func |-> f, free |-> fr]

MainFn == <<>>

\* IterObject { iter, size, current }
IterObject(src, n, c) == [kind |-> "Iter", iter |-> src, size |-> n, current |-> c]

\* RangeObject { start, stop, step }
RangeObject(start, stop, step) ==
    [kind |-> "Range", start |-> start, stop |-> stop, step |-> step]

\* Object::Float: the value k stands for the f64 1.0 + k * f64::EPSILON, which
\* is exact (EPSILON is the spacing of the f64s from 1.0 to 2.0), so that the
\* difference of two Floats is their distance in EPSILONs.  None of them is
\* 0.0 or NaN.
FloatObject(k) == [kind |-> "Float", value |-> k]

\* is_truthy
is_truthy(obj) ==
    CASE obj.kind = "Null" -> FALSE
      [] obj.kind = "Bool" -> obj.value
      [] obj.kind = "Int" -> obj.value # 0
      [] obj.kind = "Str" -> obj.value # <<>>
      [] obj.kind = "Char" -> obj.value # 0
      [] obj.kind = "Array" -> obj.elements # <<>>
      [] obj.kind = "Hash" -> obj.pairs # <<>>
      [] OTHER -> TRUE

\* ------------------------------------------------------------- the VM

VARIABLES
    bytecode,   \* the Bytecode { instructions, constants } given to VM::new
    build,      \* "debug" (overflow checks on) or "release" (wrapping)
    vm,         \* the VirtualMachine struct
    status,     \* "running"; "ok" / "err": run() returned; "panic": it unwound;
                \* "hang": it never returns; "idle": no run() was started
    error,      \* the Err(String) run() returned, as the parts of the message
    last,       \* history: the instruction the last step executed
    calls,      \* history: per frame above the main frame, the state at its Call
    stored,     \* history: global index -> the value SetGlobal last stored
                \* there, since the last removal from globals
    asm,        \* the instruction a caller of make and read_operands works
                \* on: the opcode and operands given, the bytes made, the
                \* operands and the byte count read back
    repl        \* the locals of start_repl: symbol_table, constants, globals,
                \* and as history their values before the last line read, that
                \* line's outcome and the number of lines read

vars == <<bytecode, build, vm, status, error, last, calls, stored, asm, repl>>

\* Result<(), String> of a VM method, with the VM as the method left it; a
\* panic is a third outcome.
Ok(m) == [res |-> "Ok", vm |-> m, msg |-> <<>>]

Err(m, message) == [res |-> "Err", vm |-> m, msg |-> message]

Panic(m) == [res |-> "Panic", vm |-> m, msg |-> <<>>]

\* The method never returns: a loop without end.
Hang(m) == [res |-> "Hang", vm |-> m, msg |-> <<>>]

\* The stack array: slot i of s; slots past the stored prefix hold Null.
StackGet(s, i) == IF i < Len(s) THEN s[i + 1] ELSE NULL

\* s without its trailing Null slots.
Trim(s) ==
    LET n == CHOOSE k \in 0..Len(s) :
                 /\ k = 0 \/ s[k] # NULL
                 /\ \A j \in (k + 1)..Len(s) : s[j] = NULL
    IN  SubSeq(s, 1, n)

\* stack[i] = o (i < STACK_SIZE is the caller's bounds check).
StackSet(s, i, o) ==
    IF i < Len(s)
        THEN IF o = NULL /\ i = Len(s) - 1
                 THEN Trim(SubSeq(s, 1, i))
                 ELSE [s EXCEPT ![i + 1] = o]
        ELSE IF o = NULL THEN s
        ELSE [k \in 1..(i + 1) |-> IF k = i + 1 THEN o ELSE StackGet(s, k - 1)]

\* Frame::new(cl, bp): ip starts at -1.
FrameNew(cl, bp) == [cl |-> cl, ip |-> -1, bp |-> bp]

\* VirtualMachine::new / new_with_global_store(bytecode, s).  The field
\* `constants` is a clone of bytecode.constants that nothing writes; the model
\* reads it from the bytecode.
VMNew(bc, s) ==
    [globals |-> s,
     stack |-> <<>>,
     sp |-> 0,
     last_popped_stack_elem |-> <<>>,
     frames |-> <<FrameNew(ClosureObject(MainFn, <<>>), 0)>>,
     frames_index |-> 1]

\* self.constants
constants == bytecode.constants

\* The CompiledFunctionObject of a closure.
Func(cl) ==
    IF cl.func = MainFn
        THEN CompiledFunctionObject(bytecode.instructions, 0, 0)
        ELSE constants[cl.func[1] + 1]

\* Frame::instructions()
instructions(f) == Func(f.cl).instructions

\* current_frame(): frames[frames_index - 1]
current_frame(m) == m.frames[m.frames_index]

\* push with the comparison off by one.
push_off_by_one(m, o) ==
    IF m.sp > STACK_SIZE
        THEN Err(m, <<"stack overflow">>)
        ELSE Ok([m EXCEPT !.stack = StackSet(m.stack, m.sp, o), !.sp = m.sp + 1])

\* push
push(m, o) ==
    IF m.sp >= STACK_SIZE
        THEN Err(m, <<"stack overflow">>)
        ELSE Ok([m EXCEPT !.stack = StackSet(m.stack, m.sp, o), !.sp = m.sp + 1])

\* pop: the popped object is r.vm.last_popped_stack_elem[1].  stack[sp - 1]
\* panics when sp = 0 (overflow check, or index usize::MAX) or sp > STACK_SIZE.
pop(m) ==
    IF m.sp = 0 \/ m.sp - 1 >= STACK_SIZE
        THEN Panic(m)
        ELSE Ok([m EXCEPT !.sp = m.sp - 1,
                          !.last_popped_stack_elem = <<StackGet(m.stack, m.sp - 1)>>])

Popped(r) == r.vm.last_popped_stack_elem[1]

\* push_frame
push_frame(m, f) ==
    [m EXCEPT !.frames = Append(m.frames, f), !.frames_index = m.frames_index + 1]

\* pop_frame: the popped frame is m.frames[Len(m.frames)].
pop_frame(m) ==
    [m EXCEPT !.frames = SubSeq(m.frames, 1, Len(m.frames) - 1),
              !.frames_index = m.frames_index - 1]

\* `self.current_frame().ip += n`
AdvanceIp(m, n) == [m EXCEPT !.frames[m.frames_index].ip = @ + n]

\* `self.current_frame().ip = (pos - 1) as isize`: pos is a usize, so for
\* pos = 0 the subtraction overflows: a panic with overflow checks (debug),
\* usize::MAX as isize = -1 without (release).
jump_ip(pos) == pos - 1

jump(m, pos) ==
    IF pos = 0 /\ build = "debug"
        THEN Panic(m)
        ELSE Ok([m EXCEPT !.frames[m.frames_index].ip = jump_ip(pos)])

\* call_closure with the callee's slot taken for the first local.
call_bp_off_by_one(sp, num_args) == sp - num_args - 1

\* call_closure: the base pointer of the new frame
call_bp(sp, num_args) == sp - num_args

\* call_closure: the stack pointer after the frame is pushed
call_sp(bp, num_locals) == bp + num_locals

\* call_closure without the comparison of num_args with num_parameters.
call_closure_unchecked(m, cl, num_args) ==
    LET frame == FrameNew(cl, call_bp(m.sp, num_args))
    IN  Ok([push_frame(m, frame) EXCEPT
               !.sp = call_sp(frame.bp, Func(cl).num_locals)])

\* call_closure
call_closure(m, cl, num_args) ==
    IF num_args # Func(cl).num_parameters
        THEN Err(m, <<"wrong number of arguments. got: ", num_args,
                      ", want: ", Func(cl).num_parameters>>)
        ELSE LET frame == FrameNew(cl, call_bp(m.sp, num_args))
             IN  Ok([push_frame(m, frame) EXCEPT
                        !.sp = call_sp(frame.bp, Func(cl).num_locals)])

\* BigInt division truncates toward zero.
bigint_div(left, right) ==
    LET abs(x) == IF x < 0 THEN 0 - x ELSE x
        q == abs(left) \div abs(right)
    IN  IF (left < 0) = (right < 0) THEN q ELSE 0 - q

\* BigInt's ^, & and |: bitwise on the two's complement representation with
\* infinite sign extension (x \div 2 rounds down, so 0 and -1 are the ends).
RECURSIVE bigint_bitop(_, _, _)
bigint_bitop(op, left, right) ==
    LET bit(a, b) == CASE op = "BitXor" -> a # b
                       [] op = "BitAnd" -> a /\ b
                       [] OTHER -> a \/ b
    IN  IF left \in {0, -1} /\ right \in {0, -1}
            THEN IF bit(left = -1, right = -1) THEN -1 ELSE 0
            ELSE 2 * bigint_bitop(op, left \div 2, right \div 2)
                 + (IF bit(left % 2 = 1, right % 2 = 1) THEN 1 ELSE 0)

\* BigInt >> n rounds toward negative infinity.
bigint_shr(left, n) == left \div (2 ^ n)

\* execute_binary_int_operation; BigInt's `/` panics on a zero divisor and
\* its shifts panic on a negative amount.
execute_binary_int_operation(m, op, left, right) ==
    CASE op = "Add" -> push(m, IntObject(left + right))
      [] op = "Sub" -> push(m, IntObject(left - right))
      [] op = "Mul" -> push(m, IntObject(left * right))
      [] op = "Div" -> IF right = 0 THEN Panic(m)
                       ELSE push(m, IntObject(bigint_div(left, right)))
      [] op \in {"BitXor", "BitAnd", "BitOr"} ->
             push(m, IntObject(bigint_bitop(op, left, right)))
      [] op = "Shr" -> IF right < 0 THEN Panic(m)
                       ELSE push(m, IntObject(bigint_shr(left, right)))
      [] op = "Shl" -> IF right < 0 THEN Panic(m)
                       ELSE push(m, IntObject(left * 2 ^ right))
      [] OTHER -> Err(m, <<"unknown integer operation: ", op>>)

\* execute_binary_string_operation, and execute_binary_char_operation, which
\* is the same on a right operand of one char.
execute_binary_string_operation(m, op, left, right) ==
    IF op = "Add" THEN push(m, StrObject(left \o right))
    ELSE Err(m, <<"unknown string operation: ", op>>)

\* execute_binary_operation with the two kinds exchanged in the message.
execute_binary_operation_swapped(m, op) ==
    LET r1 == pop(m)
        r2 == pop(r1.vm)
        right == Popped(r1)
        left == Popped(r2)
    IN  IF r1.res # "Ok" THEN r1
        ELSE IF r2.res # "Ok" THEN r2
        ELSE IF left.kind = "Int" /\ right.kind = "Int"
            THEN execute_binary_int_operation(r2.vm, op, left.value, right.value)
        ELSE IF left.kind = "Str" /\ right.kind = "Str"
            THEN execute_binary_string_operation(r2.vm, op, left.value, right.value)
        ELSE IF left.kind = "Str" /\ right.kind = "Char"
            THEN execute_binary_string_operation(r2.vm, op, left.value, <<right.value>>)
        ELSE IF left.kind = "Char" /\ right.kind = "Char"
            THEN execute_binary_string_operation(r2.vm, op, <<left.value>>, <<right.value>>)
        ELSE Err(r2.vm, <<"unsupported types for binary operation: ",
                          right.kind, op, left.kind>>)

\* execute_binary_operation: pops right, then left.  (Float arithmetic is
\* not modelled: no program of the model applies one of these opcodes to two
\* Floats.)
execute_binary_operation(m, op) ==
    LET r1 == pop(m)
        r2 == pop(r1.vm)
        right == Popped(r1)
        left == Popped(r2)
    IN  IF r1.res # "Ok" THEN r1
        ELSE IF r2.res # "Ok" THEN r2
        ELSE IF left.kind = "Int" /\ right.kind = "Int"
            THEN execute_binary_int_operation(r2.vm, op, left.value, right.value)
        ELSE IF left.kind = "Str" /\ right.kind = "Str"
            THEN execute_binary_string_operation(r2.vm, op, left.value, right.value)
        ELSE IF left.kind = "Str" /\ right.kind = "Char"
            THEN execute_binary_string_operation(r2.vm, op, left.value, <<right.value>>)
        ELSE IF left.kind = "Char" /\ right.kind = "Char"
            THEN execute_binary_string_operation(r2.vm, op, <<left.value>>, <<right.value>>)
        ELSE Err(r2.vm, <<"unsupported types for binary operation: ",
                          left.kind, op, right.kind>>)

\* execute_comparison, with execute_int_comparison, execute_float_comparison
\* and execute_char_comparison: pops right, then left.  The distance of two
\* Floats is counted in f64::EPSILONs; two objects of other kinds are equal
\* when they are of the same kind and have the same contents.
execute_comparison(m, op) ==
    LET r1 == pop(m)
        r2 == pop(r1.vm)
        right == Popped(r1)
        left == Popped(r2)
        abs == IF left.value >= right.value THEN left.value - right.value
               ELSE right.value - left.value
        native_bool_to_boolean_object(b) == IF b THEN TrueObj ELSE FalseObj
        ordered(eq, ne) ==
            CASE op = "Equal" -> eq
              [] op = "NotEqual" -> ne
              [] op = "GreaterThan" -> left.value > right.value
              [] OTHER -> left.value >= right.value
    IN  IF r1.res # "Ok" THEN r1
        ELSE IF r2.res # "Ok" THEN r2
        ELSE IF left.kind = right.kind /\ left.kind \in {"Int", "Char"}
            THEN push(r2.vm, native_bool_to_boolean_object(
                               ordered(left.value = right.value,
                                       left.value # right.value)))
        ELSE IF left.kind = "Float" /\ right.kind = "Float"
            THEN push(r2.vm, native_bool_to_boolean_object(
                               ordered(abs < 1, abs > 1)))
        ELSE IF op = "Equal"
            THEN push(r2.vm, IF left.kind = right.kind /\ left = right
                                 THEN TrueObj ELSE FalseObj)
        ELSE IF op = "NotEqual"
            THEN push(r2.vm, IF left.kind = right.kind /\ left = right
                                 THEN FalseObj ELSE TrueObj)
        ELSE Err(r2.vm, <<"unknown operator: ", op, " (", left.kind, " ",
                          right.kind, ")">>)

\* execute_boolean_operator with the two branches of each opcode exchanged.
execute_boolean_operator_swapped(m, op) ==
    LET r1 == pop(m)
        r2 == pop(r1.vm)
        right == Popped(r1)
        left == Popped(r2)
    IN  IF r1.res # "Ok" THEN r1
        ELSE IF r2.res # "Ok" THEN r2
        ELSE IF op = "And"
            THEN push(r2.vm, IF is_truthy(left) THEN left ELSE right)
            ELSE push(r2.vm, IF is_truthy(left) THEN right ELSE left)

\* execute_boolean_operator
execute_boolean_operator(m, op) ==
    LET r1 == pop(m)
        r2 == pop(r1.vm)
        right == Popped(r1)
        left == Popped(r2)
    IN  IF r1.res # "Ok" THEN r1
        ELSE IF r2.res # "Ok" THEN r2
        ELSE IF op = "And"
            THEN push(r2.vm, IF is_truthy(left) THEN right ELSE left)
            ELSE push(r2.vm, IF is_truthy(left) THEN left ELSE right)

\* The registry of built-in functions, (name, func) pairs; a function pointer
\* is identified with the name it is registered under.
BUILTINS == << [name |-> "builtin0", func |-> "builtin0"],
              [name |-> "builtin1", func |-> "builtin1"] >>

\* Object::Builtin(BuiltinObject { name, func, caller }); caller is an
\* Option: <<>> is None, <<o>> is Some(o).
BuiltinObject(name, func, caller) ==
    [kind |-> "Builtin", name |-> name, func |-> func, caller |-> caller]

\* (func)(caller, args): the built-in functions are not interpreted; the
\* result records what the function was called with.
call_func(func, caller, args) ==
    [kind |-> "BuiltinResult", func |-> func, caller |-> caller, args |-> args]

\* call_builtin that lowers sp by the arguments only.
call_builtin_keeps_callee(m, func, caller, num_args) ==
    IF m.sp > STACK_SIZE \/ m.sp < num_args
        THEN Panic(m)
        ELSE LET args == [i \in 1..num_args |->
                            StackGet(m.stack, m.sp - num_args + i - 1)]
             IN  push([m EXCEPT !.sp = m.sp - num_args],
                      call_func(func, caller, args))

\* call_builtin: the slice stack[sp - num_args..sp] panics when it is not
\* inside the array; `sp - num_args - 1` is a usize.
call_builtin(m, func, caller, num_args) ==
    IF m.sp > STACK_SIZE \/ m.sp < num_args
        THEN Panic(m)
        ELSE LET args == [i \in 1..num_args |->
                            StackGet(m.stack, m.sp - num_args + i - 1)]
             IN  IF m.sp - num_args = 0
                     THEN IF build = "debug"
                              THEN Panic(m)
                              ELSE push([m EXCEPT !.sp = USIZE_MAX],
                                        call_func(func, caller, args))
                     ELSE push([m EXCEPT !.sp = m.sp - num_args - 1],
                               call_func(func, caller, args))

\* exec_call: stack[sp - 1 - num_args] panics when the index underflows or is
\* outside the array.
exec_call(m, num_args) ==
    IF m.sp < 1 + num_args \/ m.sp - 1 - num_args >= STACK_SIZE
        THEN Panic(m)
        ELSE LET callee == StackGet(m.stack, m.sp - 1 - num_args)
             IN  IF callee.kind = "Closure"
                     THEN call_closure(m, callee, num_args)
                 ELSE IF callee.kind = "Builtin"
                     THEN call_builtin(m, callee.func,
                                       IF callee.caller = <<>> THEN NULL
                                       ELSE callee.caller[1],
                                       num_args)
                     ELSE Err(m, <<"calling non-function and non-builtin: ",
                                   callee.kind>>)

\* The arms of ReturnValue and Return after the value is known: pop_frame,
\* `self.sp = frame.bp - 1` (usize: bp = 0 overflows), push.
return_sp_keeps_callee(bp) == bp

return_sp(bp) == bp - 1

return_to_caller(m, value) ==
    LET frame == m.frames[Len(m.frames)]
        m2 == pop_frame(m)
    IN  IF frame.bp = 0
            THEN IF build = "debug"
                     THEN Panic(m2)
                     ELSE push([m2 EXCEPT !.sp = USIZE_MAX], value)
            ELSE push([m2 EXCEPT !.sp = return_sp(frame.bp)], value)

\* The captured values taken in pop order.
captured_reversed(m, num_free) ==
    [i \in 1..num_free |-> StackGet(m.stack, m.sp - i)]

\* push_closure: free[i] = stack[sp - num_free + i] for i in 0..num_free
captured(m, num_free) ==
    [i \in 1..num_free |-> StackGet(m.stack, m.sp - num_free + i - 1)]

\* push_closure
push_closure(m, const_idx, num_free) ==
    IF const_idx >= Len(constants) THEN Panic(m)
    ELSE LET constant == constants[const_idx + 1]
         IN  IF constant.kind = "CompiledFunction"
                 THEN IF num_free > 0 /\ (m.sp < num_free \/ m.sp - 1 >= STACK_SIZE)
                          THEN Panic(m)
                          ELSE push([m EXCEPT !.sp = m.sp - num_free],
                                    ClosureObject(<<const_idx>>,
                                                  captured(m, num_free)))
                 ELSE Err(m, <<"not a function: ", constant>>)

\* SetGlobal's write: a Vec push when the index is past the end.
set_global(globals, global_idx, obj) ==
    IF global_idx >= Len(globals)
        THEN Append(globals, obj)
        ELSE [globals EXCEPT ![global_idx + 1] = obj]

\* Vec::remove(index): the later elements shift left.
remove(v, index) ==
    [k \in 1..(Len(v) - 1) |-> IF k <= index THEN v[k] ELSE v[k + 1]]

\* Iterable::from_object(obj).is_some(), for the kinds of object the model
\* holds.
IsIterable(obj) == obj.kind \in {"Array", "Str"}

\* Iterable::count()
count(obj) == IF obj.kind = "Array" THEN Len(obj.elements) ELSE Len(obj.value)

\* Iterable::get(index), for the kinds of object the model holds.  What it
\* gives past the end is not specified; the model has it give Null.
get(obj, index) ==
    IF obj.kind = "Array" /\ index < Len(obj.elements)
        THEN obj.elements[index + 1]
        ELSE NULL

\* Object::call_method(method, args): the built-in method table is not
\* interpreted; the result records what the method was called with.
call_method(caller, method_idx, args) ==
    [kind |-> "MethodResult", caller |-> caller, method |-> method_idx,
     args |-> args]

\* Pops n values; the result's vals are in pop order.
RECURSIVE pop_n(_, _)
pop_n(m, n) ==
    IF n = 0 THEN [r |-> Ok(m), vals |-> <<>>]
    ELSE LET r1 == pop(m)
         IN  IF r1.res # "Ok" THEN [r |-> r1, vals |-> <<>>]
             ELSE LET rest == pop_n(r1.vm, n - 1)
                  IN  [r |-> rest.r, vals |-> <<Popped(r1)>> \o rest.vals]

reverse(s) == [k \in 1..Len(s) |-> s[Len(s) + 1 - k]]

\* exec_method_expression
exec_method_expression(m, num_args, method_idx, has_arguments) ==
    LET popped == pop_n(m, num_args)
    IN  IF popped.r.res # "Ok" THEN popped.r
        ELSE LET r == pop(popped.r.vm)
             IN  IF r.res # "Ok" THEN r
                 ELSE push(r.vm,
                           call_method(Popped(r), method_idx,
                               IF has_arguments THEN <<reverse(popped.vals)>>
                                                ELSE <<>>))

\* Hashable::from_object that takes Null as well.
IsHashable_or_null(obj) == obj.kind \in {"Int", "Str", "Char", "Bool", "Null"}

\* Hashable::from_object is Some for these kinds only.
IsHashable(obj) == obj.kind \in {"Int", "Str", "Char", "Bool"}

\* Hashable::hash_key: a 64-bit hash of the variant and the payload, taken
\* here as free of collisions.
hash_key(obj) == <<obj.kind, obj.value>>

\* HashMap::insert: a pair under a hash key that is present replaces it.
insert(pairs, key, value) ==
    LET pair == [hash |-> hash_key(key), key |-> key, value |-> value]
    IN  IF \E i \in 1..Len(pairs) : pairs[i].hash = pair.hash
            THEN [i \in 1..Len(pairs) |->
                    IF pairs[i].hash = pair.hash THEN pair ELSE pairs[i]]
            ELSE Append(pairs, pair)

\* The loop of exec_hash_literal: n times pop the value, pop the key, insert.
RECURSIVE hash_pairs(_, _, _)
hash_pairs(m, n, pairs) ==
    IF n = 0 THEN [r |-> Ok(m), pairs |-> pairs]
    ELSE LET r1 == pop(m)
             r2 == pop(r1.vm)
         IN  IF r1.res # "Ok" THEN [r |-> r1, pairs |-> pairs]
             ELSE IF r2.res # "Ok" THEN [r |-> r2, pairs |-> pairs]
             ELSE IF ~IsHashable(Popped(r2))
                 THEN [r |-> Err(r2.vm, <<"unusable as hash key: ",
                                          Popped(r2).kind>>),
                       pairs |-> pairs]
             ELSE hash_pairs(r2.vm, n - 1,
                             insert(pairs, Popped(r2), Popped(r1)))

\* exec_hash_literal
exec_hash_literal(m, num_pairs) ==
    LET h == hash_pairs(AdvanceIp(m, 2), num_pairs, <<>>)
    IN  IF h.r.res # "Ok" THEN h.r
        ELSE push(h.r.vm, HashObject(h.pairs))

\* str::len: the length of a string is in bytes, the sum of its chars'
\* len_utf8.
RECURSIVE str_len(_)
str_len(value) ==
    LET len_utf8(c) == IF c < 128 THEN 1 ELSE IF c < 2048 THEN 2
                       ELSE IF c < 65536 THEN 3 ELSE 4
    IN  IF value = <<>> THEN 0
        ELSE len_utf8(Head(value)) + str_len(Tail(value))

\* exec_array_index_expression with the upper bound off by one.
exec_array_index_off_by_one(m, array, idx) ==
    LET max == Len(array) - 1
    IN  IF idx < 0 \/ idx >= max
            THEN Err(m, <<"index out of bounds. got: ", idx, ", max: ", max>>)
            ELSE push(m, array[idx + 1])

\* exec_array_index_expression
exec_array_index_expression(m, array, idx) ==
    LET max == Len(array) - 1
    IN  IF idx < 0 \/ idx > max
            THEN Err(m, <<"index out of bounds. got: ", idx, ", max: ", max>>)
            ELSE push(m, array[idx + 1])

\* exec_string_index_expression: `string.len() - 1` is a usize, and
\* chars().nth(idx) is None past the last char.
exec_string_index_expression(m, string, idx) ==
    IF str_len(string) = 0 /\ build = "debug" THEN Panic(m)
    ELSE LET max == IF str_len(string) = 0 THEN USIZE_MAX
                    ELSE str_len(string) - 1
         IN  IF idx >= str_len(string)
                 THEN Err(m, <<"index out of bounds. got: ", idx,
                               ", max: ", max>>)
             ELSE IF idx >= Len(string) THEN Panic(m)
             ELSE push(m, CharObject(string[idx + 1]))

\* The two slice expressions, over the items (elements or chars) of which
\* `len` pass the range check.  idx holds the values i takes in
\* `i = start; while i < stop { ...; i += step }` for step > 0.  With
\* step = 0 the loop has no end; with step < 0 i falls below 0 and
\* items[i as usize] is out of bounds.
slice(m, kind, items, len, start, stop, step) ==
    LET max == len - 1
        idx == [k \in 1..((stop - start + step - 1) \div step) |->
                  start + (k - 1) * step]
    IN  IF start > max \/ stop > max \/ start < 0 \/ stop < 0 \/ start > stop
            THEN Err(m, <<"cannot slice ", kind, " using this range">>)
        ELSE IF start = stop THEN [res |-> "Ok", items |-> <<>>]
        ELSE IF step = 0 THEN Hang(m)
        ELSE IF step < 0 THEN Panic(m)
        ELSE IF \E k \in 1..Len(idx) : idx[k] >= Len(items) THEN Panic(m)
        ELSE [res |-> "Ok",
              items |-> [k \in 1..Len(idx) |-> items[idx[k] + 1]]]

\* exec_array_slice_expression
exec_array_slice_expression(m, array, start, stop, step) ==
    LET r == slice(m, "ARRAY", array, Len(array), start, stop, step)
    IN  IF r.res # "Ok" THEN r ELSE push(m, ArrayObject(r.items))

\* exec_string_slice_expression
exec_string_slice_expression(m, string, start, stop, step) ==
    LET r == slice(m, "STR", string, str_len(string), start, stop, step)
    IN  IF r.res # "Ok" THEN r ELSE push(m, StrObject(r.items))

\* exec_hash_index_expression that gives Null for a key that is not there.
exec_hash_index_null_on_miss(m, pairs, index) ==
    IF ~IsHashable(index)
        THEN Err(m, <<"unusable as hash key: ", index.kind>>)
    ELSE IF \E i \in 1..Len(pairs) : pairs[i].hash = hash_key(index)
        THEN push(m, pairs[CHOOSE i \in 1..Len(pairs) :
                               pairs[i].hash = hash_key(index)].value)
    ELSE push(m, NULL)

\* exec_hash_index_expression
exec_hash_index_expression(m, pairs, index) ==
    IF ~IsHashable(index)
        THEN Err(m, <<"unusable as hash key: ", index.kind>>)
    ELSE IF \E i \in 1..Len(pairs) : pairs[i].hash = hash_key(index)
        THEN push(m, pairs[CHOOSE i \in 1..Len(pairs) :
                               pairs[i].hash = hash_key(index)].value)
    ELSE Err(m, <<"key error: no entry found for key '", index, "'">>)

\* execute_index_expression; to_usize().unwrap() panics on a negative Int.
execute_index_expression(m, left, index) ==
    CASE left.kind = "Array" /\ index.kind = "Int" ->
             exec_array_index_expression(m, left.elements, index.value)
      [] left.kind = "Str" /\ index.kind = "Int" ->
             IF index.value < 0 THEN Panic(m)
             ELSE exec_string_index_expression(m, left.value, index.value)
      [] left.kind = "Array" /\ index.kind = "Range" ->
             exec_array_slice_expression(m, left.elements, index.start,
                                         index.stop, index.step)
      [] left.kind = "Str" /\ index.kind = "Range" ->
             exec_string_slice_expression(m, left.value, index.start,
                                          index.stop, index.step)
      [] left.kind = "Hash" ->
             exec_hash_index_expression(m, left.pairs, index)
      [] OTHER -> Err(m, <<"index operator not supported: ", left.kind,
                           "[", index.kind, "]">>)

\* exec_range.  (to_isize().unwrap() panics for an Int outside isize; the
\* model's Ints are small.)
exec_range(m, has_step) ==
    LET r1 == pop(m)
    IN  IF r1.res # "Ok" THEN r1
        ELSE LET r2 == pop(r1.vm)
             IN  IF r2.res # "Ok" THEN r2
                 ELSE LET stop == Popped(r1)
                          start == Popped(r2)
                          not_int(o) ==
                              Err(r2.vm, <<"cannot use ", o.kind,
                                           " as step in range. expected: INT">>)
                      IN  IF start.kind # "Int" THEN not_int(start)
                          ELSE IF stop.kind # "Int" THEN not_int(stop)
                          ELSE IF has_step
                              THEN push(r2.vm,
                                        RangeObject(start.value, stop.value,
                                            IF start.value > stop.value
                                                THEN -1 ELSE 1))
                          ELSE LET r3 == pop(r2.vm)
                               IN  IF r3.res # "Ok" THEN r3
                                   ELSE IF Popped(r3).kind # "Int"
                                       THEN Err(r3.vm,
                                                <<"cannot use ", Popped(r3).kind,
                                                  " as step in range. expected: INT">>)
                                   ELSE push(r3.vm,
                                             RangeObject(start.value, stop.value,
                                                         Popped(r3).value))

\* ------------------------------------------------- the arms of run()'s match
\* Each takes the VM after `self.current_frame().ip += 1`, the current
\* frame's instructions and the position ip of the opcode byte.  Reading an
\* operand that is cut off by the end of the instructions panics.

arm_Constant(m, ins, ip) ==
    IF ~InBounds(ins, ip + 1, 2) THEN Panic(m)
    ELSE LET const_idx == read_u16(ins, ip + 1)
             m2 == AdvanceIp(m, 2)
         IN  IF const_idx >= Len(constants) THEN Panic(m2)
             ELSE push(m2, constants[const_idx + 1])

arm_Pop(m) == pop(m)

\* PopNoRet without the assignment of None.
arm_PopNoRet_keeps_last(m) == pop(m)

arm_PopNoRet(m) ==
    LET r == pop(m)
    IN  IF r.res # "Ok" THEN r
        ELSE Ok([r.vm EXCEPT !.last_popped_stack_elem = <<>>])

arm_Jump(m, ins, ip) ==
    IF ~InBounds(ins, ip + 1, 2) THEN Panic(m)
    ELSE jump(m, read_u16(ins, ip + 1))

arm_JumpNotTruthy(m, ins, ip) ==
    IF ~InBounds(ins, ip + 1, 2) THEN Panic(m)
    ELSE LET pos == read_u16(ins, ip + 1)
             r == pop(AdvanceIp(m, 2))
         IN  IF r.res # "Ok" THEN r
             ELSE IF ~is_truthy(Popped(r)) THEN jump(r.vm, pos) ELSE r

arm_SetGlobal(m, ins, ip) ==
    IF ~InBounds(ins, ip + 1, 2) THEN Panic(m)
    ELSE LET global_idx == read_u16(ins, ip + 1)
             r == pop(AdvanceIp(m, 2))
         IN  IF r.res # "Ok" THEN r
             ELSE Ok([r.vm EXCEPT
                        !.globals = set_global(@, global_idx, Popped(r))])

arm_GetGlobal(m, ins, ip) ==
    IF ~InBounds(ins, ip + 1, 2) THEN Panic(m)
    ELSE LET global_idx == read_u16(ins, ip + 1)
             m2 == AdvanceIp(m, 2)
         IN  IF global_idx >= Len(m.globals) THEN Panic(m2)
             ELSE push(m2, m.globals[global_idx + 1])

arm_GetBuiltin(m, ins, ip) ==
    IF ~InBounds(ins, ip + 1, 1) THEN Panic(m)
    ELSE LET builtin_idx == read_u8(ins, ip + 1)
             m2 == AdvanceIp(m, 1)
         IN  IF builtin_idx >= Len(BUILTINS) THEN Panic(m2)
             ELSE push(m2, BuiltinObject(BUILTINS[builtin_idx + 1].name,
                                         BUILTINS[builtin_idx + 1].func, <<>>))

arm_Call(m, ins, ip) ==
    IF ~InBounds(ins, ip + 1, 1) THEN Panic(m)
    ELSE exec_call(AdvanceIp(m, 1), read_u8(ins, ip + 1))

arm_Range(m, ins, ip) ==
    IF ~InBounds(ins, ip + 1, 1) THEN Panic(m)
    ELSE exec_range(AdvanceIp(m, 1), read_bool(ins, ip + 1))

arm_ReturnValue(m) ==
    LET r == pop(m)
    IN  IF r.res # "Ok" THEN r ELSE return_to_caller(r.vm, Popped(r))

arm_Return(m) == return_to_caller(m, NULL)

\* `self.stack[base_pointer + local_index] = self.pop()`: the right operand
\* is evaluated first, then the place is indexed.
arm_SetLocal(m, ins, ip) ==
    IF ~InBounds(ins, ip + 1, 1) THEN Panic(m)
    ELSE LET local_index == read_u8(ins, ip + 1)
             m2 == AdvanceIp(m, 1)
             base_pointer == current_frame(m2).bp
             r == pop(m2)
         IN  IF r.res # "Ok" THEN r
             ELSE IF base_pointer + local_index >= STACK_SIZE THEN Panic(r.vm)
             ELSE Ok([r.vm EXCEPT !.stack =
                        StackSet(@, base_pointer + local_index, Popped(r))])

arm_GetLocal(m, ins, ip) ==
    IF ~InBounds(ins, ip + 1, 1) THEN Panic(m)
    ELSE LET local_index == read_u8(ins, ip + 1)
             m2 == AdvanceIp(m, 1)
             base_pointer == current_frame(m2).bp
         IN  IF base_pointer + local_index >= STACK_SIZE THEN Panic(m2)
             ELSE push(m2, StackGet(m2.stack, base_pointer + local_index))

arm_Closure(m, ins, ip) ==
    IF ~InBounds(ins, ip + 1, 3) THEN Panic(m)
    ELSE push_closure(AdvanceIp(m, 3), read_u16(ins, ip + 1), read_u8(ins, ip + 3))

arm_CurrentClosure(m) == push(m, current_frame(m).cl)

\* dup
arm_Dup(m) ==
    IF m.sp >= STACK_SIZE THEN Err(m, <<"stack overflow">>)
    ELSE IF m.sp = 0 THEN Panic(m)
    ELSE Ok([m EXCEPT !.stack = StackSet(@, m.sp, StackGet(m.stack, m.sp - 1)),
                      !.sp = m.sp + 1])

\* The operand widths the arm of Method reads: read_uint8 at ip + 1,
\* read_bool at ip + 2, read_uint8 at ip + 3, and `ip += 3`.
method_advance == 1 + 1 + 1

arm_Method(m, ins, ip) ==
    IF ~InBounds(ins, ip + 1, 3) THEN Panic(m)
    ELSE exec_method_expression(AdvanceIp(m, method_advance),
            read_u8(ins, ip + 3), read_u8(ins, ip + 1), read_bool(ins, ip + 2))

arm_Start(m) ==
    LET r == pop(m)
    IN  IF r.res # "Ok" THEN r
        ELSE IF ~IsIterable(Popped(r))
            THEN Err(r.vm, <<Popped(r).kind, " is not iterable">>)
            ELSE push(r.vm, IterObject(Popped(r), count(Popped(r)), 0))

\* Next with the two pushes in the other order.
arm_Next_value_first(m) ==
    LET r == pop(m)
    IN  IF r.res # "Ok" THEN r
        ELSE LET iter == Popped(r)
             IN  IF iter.kind # "Iter"
                     THEN Err(r.vm, <<"Object is not an iterator">>)
                     ELSE LET r2 == push(r.vm, get(iter.iter, iter.current))
                          IN  IF r2.res # "Ok" THEN r2
                              ELSE push(r2.vm,
                                        IterObject(iter.iter, iter.size,
                                                   iter.current + 1))

arm_Next(m) ==
    LET r == pop(m)
    IN  IF r.res # "Ok" THEN r
        ELSE LET iter == Popped(r)
             IN  IF iter.kind # "Iter"
                     THEN Err(r.vm, <<"Object is not an iterator">>)
                     ELSE LET r2 == push(r.vm,
                                         IterObject(iter.iter, iter.size,
                                                    iter.current + 1))
                          IN  IF r2.res # "Ok" THEN r2
                              ELSE push(r2.vm, get(iter.iter, iter.current))

\* stack_top().unwrap() panics on an empty stack.
arm_JumpEnd(m, ins, ip) ==
    IF ~InBounds(ins, ip + 1, 4) THEN Panic(m)
    ELSE LET jump_pos == read_u16(ins, ip + 1)
             symbol_idx == read_u16(ins, ip + 3)
             m2 == AdvanceIp(m, 4)
         IN  IF m2.sp = 0 \/ m2.sp - 1 >= STACK_SIZE THEN Panic(m2)
             ELSE LET iter == StackGet(m2.stack, m2.sp - 1)
                  IN  IF iter.kind # "Iter"
                          THEN Err(m2, <<"Object is not an iterator">>)
                      ELSE IF iter.current >= iter.size
                          THEN LET r == jump(pop(m2).vm, jump_pos)
                               IN  IF r.res # "Ok" THEN r
                                   ELSE IF symbol_idx >= Len(r.vm.globals)
                                       THEN Panic(r.vm)
                                   ELSE Ok([r.vm EXCEPT !.globals =
                                              remove(@, symbol_idx)])
                          ELSE Ok(m2)

arm_Delete(m, ins, ip) ==
    IF ~InBounds(ins, ip + 1, 2) THEN Panic(m)
    ELSE LET index == read_u16(ins, ip + 1)
             m2 == AdvanceIp(m, 2)
         IN  IF index >= Len(m2.globals) THEN Panic(m2)
             ELSE Ok([m2 EXCEPT
                        !.last_popped_stack_elem = <<m2.globals[index + 1]>>,
                        !.globals = remove(@, index)])

\* The opcodes the match has no arm for: `_ => todo!()` panics.
TodoOpcodes == {"Mod", "Scope", "Constructor", "ClassMember", "String"}

\* ------------------------------------------------------------- run()

\* A loop that goes on after an arm has returned an error, as long as there
\* is a frame to go on in.
RunningOrFailed ==
    \/ status = "running"
    \/ status = "err" /\ vm.frames_index >= 1

Running == status = "running"

\* The current frame, its instructions, and the position of the opcode the
\* next iteration fetches.
Cur == current_frame(vm)

CurIns == instructions(Cur)

NextPos == Cur.ip + 1

\* The loop condition `ip < (instructions().len() - 1) as isize`.  len() is a
\* usize: for an empty instruction vector the subtraction panics in a debug
\* build and gives usize::MAX as isize = -1 in a release build.
LoopCond == Len(CurIns) > 0 /\ Cur.ip < Len(CurIns) - 1

\* The loop fetches an opcode that decodes to `name`.
Fetch(name) ==
    /\ Running
    /\ LoopCond
    /\ IsOpcode(CurIns[NextPos + 1])
    /\ OpName(CurIns[NextPos + 1]) = name

\* The VM after `self.current_frame().ip += 1`.
Fetched == AdvanceIp(vm, 1)

\* What the step leaves: the VM as the arm left it, and run()'s outcome.
Finish(name, r, arg, branch, newcalls) ==
    /\ vm' = r.vm
    /\ status' = CASE r.res = "Ok" -> "running"
                   [] r.res = "Err" -> "err"
                   [] r.res = "Hang" -> "hang"
                   [] OTHER -> "panic"
    /\ error' = r.msg
    /\ last' = [op |-> name, pos |-> NextPos, fi |-> vm.frames_index,
                sp |-> vm.sp, arg |-> arg, branch |-> branch]
    /\ calls' = newcalls
    /\ stored' =
         IF r.res # "Ok" THEN stored
         ELSE IF name = "SetGlobal"
             THEN [i \in DOMAIN stored \cup {arg} |->
                     IF i = arg THEN Popped(r) ELSE stored[i]]
         ELSE IF name = "Delete" \/ (name = "JumpEnd" /\ branch = "taken")
             THEN <<>>
         ELSE stored
    /\ UNCHANGED <<bytecode, build, asm, repl>>

\* The first operand as the Definition table lays it out (0 if the opcode
\* has none, -1 if the end of the instructions cuts it off).
Operand1(name) ==
    LET w == operand_widths(name)
    IN  IF w = <<>> THEN 0
        ELSE IF ~InBounds(CurIns, NextPos + 1, w[1]) THEN -1
        ELSE IF w[1] = 1 THEN read_u8(CurIns, NextPos + 1)
        ELSE IF w[1] = 2 THEN read_u16(CurIns, NextPos + 1)
        ELSE 0

Simple(name, r) == Fetch(name) /\ Finish(name, r, Operand1(name), "", calls)

\* run() returns Ok(()): the loop condition is false.
RunReturnsOk ==
    /\ Running
    /\ ~LoopCond
    /\ ~(Len(CurIns) = 0 /\ build = "debug")
    /\ status' = "ok"
    /\ UNCHANGED <<bytecode, build, vm, error, last, calls, stored, asm, repl>>

\* `len() - 1` overflows on an empty instruction vector (debug build).
RunEmptyPanics ==
    /\ Running
    /\ Len(CurIns) = 0 /\ build = "debug"
    /\ status' = "panic"
    /\ UNCHANGED <<bytecode, build, vm, error, last, calls, stored, asm, repl>>

\* try_into::<Opcode> fails: run() returns the conversion's error.
BadOpcode ==
    /\ Running
    /\ LoopCond
    /\ ~IsOpcode(CurIns[NextPos + 1])
    /\ Finish("?", Err(Fetched, <<"No discriminant in enum Opcode matches the value ",
                                  CurIns[NextPos + 1]>>), 0, "", calls)

OpConstant == Simple("Constant", arm_Constant(Fetched, CurIns, NextPos))

OpPop == Simple("Pop", arm_Pop(Fetched))

OpPopNoRet == Simple("PopNoRet", arm_PopNoRet(Fetched))

OpDup == Simple("Dup", arm_Dup(Fetched))

OpTrue == Simple("True", push(Fetched, TrueObj))

OpFalse == Simple("False", push(Fetched, FalseObj))

\* Opcode::Null in vm.rs is the opcode code.rs names Nil.
OpNil == Simple("Nil", push(Fetched, NULL))

OpJump ==
    /\ Fetch("Jump")
    /\ Finish("Jump", arm_Jump(Fetched, CurIns, NextPos), Operand1("Jump"),
              "taken", calls)

OpJumpNotTruthy ==
    /\ Fetch("JumpNotTruthy")
    /\ Finish("JumpNotTruthy", arm_JumpNotTruthy(Fetched, CurIns, NextPos),
              Operand1("JumpNotTruthy"),
              IF vm.sp \in 1..STACK_SIZE /\ ~is_truthy(StackGet(vm.stack, vm.sp - 1))
                  THEN "taken" ELSE "",
              calls)

OpSetGlobal == Simple("SetGlobal", arm_SetGlobal(Fetched, CurIns, NextPos))

OpGetGlobal == Simple("GetGlobal", arm_GetGlobal(Fetched, CurIns, NextPos))

\* The arithmetic opcodes of the arm Add | Sub | Mul | Div | ... .
BinaryOpcodes ==
    {"Add", "Sub", "Mul", "Div", "BitXor", "BitAnd", "BitOr", "Shl", "Shr"}

OpBinary ==
    \E op \in BinaryOpcodes : Simple(op, execute_binary_operation(Fetched, op))

OpBoolean ==
    \E op \in {"And", "Or"} : Simple(op, execute_boolean_operator(Fetched, op))

\* The opcodes of the arm Equal | GreaterThan | GreaterThanEqual | NotEqual.
OpComparison ==
    \E op \in {"Equal", "NotEqual", "GreaterThan", "GreaterThanEqual"} :
        Simple(op, execute_comparison(Fetched, op))

OpGetBuiltin == Simple("GetBuiltin", arm_GetBuiltin(Fetched, CurIns, NextPos))

\* A Call that pushes a frame also records, for the history, the state it
\* was made in.
OpCall ==
    /\ Fetch("Call")
    /\ LET r == arm_Call(Fetched, CurIns, NextPos)
           entered == r.res = "Ok" /\ r.vm.frames_index = vm.frames_index + 1
       IN  Finish("Call", r, Operand1("Call"),
                  IF entered THEN "closure" ELSE "",
                  IF entered
                      THEN Append(calls, [sp |-> vm.sp, fi |-> vm.frames_index,
                                          pos |-> NextPos,
                                          nargs |-> Operand1("Call")])
                      ELSE calls)

Returned(r) ==
    IF r.res = "Ok" /\ calls # <<>> THEN SubSeq(calls, 1, Len(calls) - 1) ELSE calls

\* For the history: the argument count of the Call a return answers.
ReturnsNargs == IF calls # <<>> THEN calls[Len(calls)].nargs ELSE 0

OpReturnValue ==
    /\ Fetch("ReturnValue")
    /\ LET r == arm_ReturnValue(Fetched)
       IN  Finish("ReturnValue", r, ReturnsNargs, "", Returned(r))

OpReturn ==
    /\ Fetch("Return")
    /\ LET r == arm_Return(Fetched)
       IN  Finish("Return", r, ReturnsNargs, "", Returned(r))

OpSetLocal == Simple("SetLocal", arm_SetLocal(Fetched, CurIns, NextPos))

OpGetLocal == Simple("GetLocal", arm_GetLocal(Fetched, CurIns, NextPos))

OpClosure == Simple("Closure", arm_Closure(Fetched, CurIns, NextPos))

\* GetFree reading the slot of the frame instead of the closure's copy.
OpGetFree_from_slot ==
    Simple("GetFree",
           IF ~InBounds(CurIns, NextPos + 1, 1) THEN Panic(Fetched)
           ELSE LET free_idx == read_u8(CurIns, NextPos + 1)
                    m2 == AdvanceIp(Fetched, 1)
                    current_closure == current_frame(m2).cl
                IN  IF free_idx >= Len(current_closure.free) THEN Panic(m2)
                    ELSE push(m2, StackGet(m2.stack, current_frame(m2).bp + free_idx)))

\* GetFree: `current_closure.free[free_idx]` is a Vec index, out of range a
\* panic.
OpGetFree ==
    Simple("GetFree",
           IF ~InBounds(CurIns, NextPos + 1, 1) THEN Panic(Fetched)
           ELSE LET free_idx == read_u8(CurIns, NextPos + 1)
                    m2 == AdvanceIp(Fetched, 1)
                    current_closure == current_frame(m2).cl
                IN  IF free_idx >= Len(current_closure.free) THEN Panic(m2)
                    ELSE push(m2, current_closure.free[free_idx + 1]))

OpCurrentClosure == Simple("CurrentClosure", arm_CurrentClosure(Fetched))

OpMethod == Simple("Method", arm_Method(Fetched, CurIns, NextPos))

OpStart == Simple("Start", arm_Start(Fetched))

\* Array: pops num_elements values; the elements are in push order.
OpArray ==
    Simple("Array",
           IF ~InBounds(CurIns, NextPos + 1, 2) THEN Panic(Fetched)
           ELSE LET popped == pop_n(AdvanceIp(Fetched, 2),
                                    read_u16(CurIns, NextPos + 1))
                IN  IF popped.r.res # "Ok" THEN popped.r
                    ELSE push(popped.r.vm, ArrayObject(reverse(popped.vals))))

\* Hash (Dict in the Definition table)
OpHash ==
    Simple("Dict",
           IF ~InBounds(CurIns, NextPos + 1, 2) THEN Panic(Fetched)
           ELSE exec_hash_literal(Fetched, read_u16(CurIns, NextPos + 1)))

\* Index: pops the index, then the indexed object.
OpIndex ==
    Simple("Index",
           LET r1 == pop(Fetched)
               r2 == pop(r1.vm)
           IN  IF r1.res # "Ok" THEN r1
               ELSE IF r2.res # "Ok" THEN r2
               ELSE execute_index_expression(r2.vm, Popped(r2), Popped(r1)))

OpRange == Simple("Range", arm_Range(Fetched, CurIns, NextPos))

OpNext == Simple("Next", arm_Next(Fetched))

OpJumpEnd ==
    /\ Fetch("JumpEnd")
    /\ LET top == StackGet(vm.stack, vm.sp - 1)
       IN  Finish("JumpEnd", arm_JumpEnd(Fetched, CurIns, NextPos),
                  Operand1("JumpEnd"),
                  IF vm.sp \in 1..STACK_SIZE /\ top.kind = "Iter"
                     /\ top.current >= top.size
                      THEN "taken" ELSE "",
                  calls)

OpDelete == Simple("Delete", arm_Delete(Fetched, CurIns, NextPos))

OpTodo ==
    \E name \in TodoOpcodes :
        /\ Fetch(name)
        /\ Finish(name, Panic(Fetched), 0, "", calls)

\* ------------------------------------------------------------- programs
\* The Bytecode run() is given.  `source` is the Panda text a bytecode is the
\* compilation of (by the lowering rules of the compiler), or "" for a
\* bytecode assembled directly with make.

\* The constant pool of the assembled programs.
GenConstants ==
    << IntObject(7),
       ArrayObject(<<>>),
       ArrayObject(<<IntObject(1), IntObject(2)>>),
       \* 3: fn() { 7 }
       CompiledFunctionObject(
           concat(<<make("Constant", <<0>>), make("ReturnValue", <<>>)>>), 0, 0),
       \* 4: fn(x) { x }
       CompiledFunctionObject(
           concat(<<make("GetLocal", <<0>>), make("ReturnValue", <<>>)>>), 1, 1),
       \* 5: fn() { var a = 7; }
       CompiledFunctionObject(
           concat(<<make("Constant", <<0>>), make("SetLocal", <<0>>)>>), 1, 0),
       \* 6: fn() { }
       CompiledFunctionObject(make("Return", <<>>), 0, 0),
       \* 7: fn f() { f() }
       CompiledFunctionObject(
           concat(<<make("CurrentClosure", <<>>), make("Call", <<0>>),
                    make("ReturnValue", <<>>)>>), 0, 0),
       \* 8: a function with 200 locals that calls itself
       CompiledFunctionObject(
           concat(<<make("CurrentClosure", <<>>), make("Call", <<0>>),
                    make("ReturnValue", <<>>)>>), 200, 0),
       \* 9: fn(x) { var a = x; a }
       CompiledFunctionObject(
           concat(<<make("GetLocal", <<0>>), make("SetLocal", <<1>>),
                    make("GetLocal", <<1>>), make("ReturnValue", <<>>)>>), 2, 1) >>

Bytecode(src, ins) ==
    [source |-> src, instructions |-> concat(ins), constants |-> GenConstants]

\* A bytecode with a constant pool of its own.
BytecodeWith(src, ins, consts) ==
    [source |-> src, instructions |-> concat(ins), constants |-> consts]

\* Programs as the compiler lowers them: an expression statement is the
\* expression and Pop, a declaration is the value and SetGlobal, a function
\* statement is Closure and SetGlobal, `if` and `while` are patched jumps.
CompiledPrograms ==
    { Bytecode("fn f() { 7 } f();",
        << make("Closure", <<3, 0>>), make("SetGlobal", <<0>>),
           make("GetGlobal", <<0>>), make("Call", <<0>>), make("Pop", <<>>) >>),
      Bytecode("fn id(x) { var a = x; a } id(7); id(true);",
        << make("Closure", <<9, 0>>), make("SetGlobal", <<0>>),
           make("GetGlobal", <<0>>), make("Constant", <<0>>),
           make("Call", <<1>>), make("Pop", <<>>),
           make("GetGlobal", <<0>>), make("True", <<>>),
           make("Call", <<1>>), make("Pop", <<>>) >>),
      Bytecode("fn id(x) { x } id(7, true); 7;",
        << make("Closure", <<4, 0>>), make("SetGlobal", <<0>>),
           make("GetGlobal", <<0>>), make("Constant", <<0>>),
           make("True", <<>>), make("Call", <<2>>), make("Pop", <<>>),
           make("Constant", <<0>>), make("Pop", <<>>) >>),
      Bytecode("fn f() { var a = 7; } f(); 7;",
        << make("Closure", <<5, 0>>), make("SetGlobal", <<0>>),
           make("GetGlobal", <<0>>), make("Call", <<0>>), make("Pop", <<>>),
           make("Constant", <<0>>), make("Pop", <<>>) >>),
      Bytecode("fn f() { } f();",
        << make("Closure", <<6, 0>>), make("SetGlobal", <<0>>),
           make("GetGlobal", <<0>>), make("Call", <<0>>), make("Pop", <<>>) >>),
      Bytecode("fn f() { f() } f();",
        << make("Closure", <<7, 0>>), make("SetGlobal", <<0>>),
           make("GetGlobal", <<0>>), make("Call", <<0>>), make("Pop", <<>>) >>),
      Bytecode("var a = 7; var b = true; delete a; b;",
        << make("Constant", <<0>>), make("SetGlobal", <<0>>),
           make("True", <<>>), make("SetGlobal", <<1>>),
           make("Delete", <<0>>),
           make("GetGlobal", <<1>>), make("Pop", <<>>) >>),
      Bytecode("var a = 7; var b = true; var c = null; delete a; b;",
        << make("Constant", <<0>>), make("SetGlobal", <<0>>),
           make("True", <<>>), make("SetGlobal", <<1>>),
           make("Nil", <<>>), make("SetGlobal", <<2>>),
           make("Delete", <<0>>),
           make("GetGlobal", <<1>>), make("Pop", <<>>) >>),
      Bytecode("while (true) { }",
        << make("True", <<>>), make("JumpNotTruthy", <<7>>),
           make("Jump", <<0>>) >>),
      Bytecode("7; while (null) { 7; }",
        << make("Constant", <<0>>), make("Pop", <<>>),
           make("Nil", <<>>), make("JumpNotTruthy", <<15>>),
           make("Constant", <<0>>), make("Pop", <<>>),
           make("Jump", <<4>>) >>),
      Bytecode("if (true) { 7 } else { false };",
        << make("True", <<>>), make("JumpNotTruthy", <<10>>),
           make("Constant", <<0>>), make("Jump", <<11>>),
           make("False", <<>>), make("Pop", <<>>) >>),
      Bytecode("if (false) { 7 };",
        << make("False", <<>>), make("JumpNotTruthy", <<10>>),
           make("Constant", <<0>>), make("Jump", <<11>>),
           make("Nil", <<>>), make("Pop", <<>>) >>),
      Bytecode("return 7;",
        << make("Constant", <<0>>), make("ReturnValue", <<>>) >>) }

\* for-loops with an empty body over the arrays [] and [1, 2], the loop
\* variable being global 0: one Next and one JumpEnd per iteration, the test
\* either before the Next or after the loop variable is stored.
ForPrograms ==
    UNION { { Bytecode("", << make("Constant", <<c>>), make("Start", <<>>),
                              make("JumpEnd", <<16, 0>>), make("Next", <<>>),
                              make("SetGlobal", <<0>>), make("Jump", <<4>>) >>),
              Bytecode("", << make("Constant", <<c>>), make("Start", <<>>),
                              make("Next", <<>>), make("SetGlobal", <<0>>),
                              make("JumpEnd", <<16, 0>>), make("Jump", <<4>>) >>) }
            : c \in {1, 2} }

\* Programs with functions that keep locals and capture free variables, each
\* with a constant pool of its own.
ClosurePrograms ==
    { BytecodeWith("fn f() { var a = 7; 1..5; a } f();",
        << make("Closure", <<3, 0>>), make("SetGlobal", <<0>>),
           make("GetGlobal", <<0>>), make("Call", <<0>>), make("Pop", <<>>) >>,
        << IntObject(7), IntObject(1), IntObject(5),
           CompiledFunctionObject(
               concat(<<make("Constant", <<0>>), make("SetLocal", <<0>>),
                        make("Constant", <<1>>), make("Constant", <<2>>),
                        make("Range", <<0>>), make("Pop", <<>>),
                        make("GetLocal", <<0>>), make("ReturnValue", <<>>)>>),
               1, 0) >>),
      BytecodeWith("fn id(x) { x } fn g(x) { var a = x; id(true); a } g(7);",
        << make("Closure", <<1, 0>>), make("SetGlobal", <<0>>),
           make("Closure", <<2, 0>>), make("SetGlobal", <<1>>),
           make("GetGlobal", <<1>>), make("Constant", <<0>>),
           make("Call", <<1>>), make("Pop", <<>>) >>,
        << IntObject(7),
           CompiledFunctionObject(
               concat(<<make("GetLocal", <<0>>), make("ReturnValue", <<>>)>>),
               1, 1),
           CompiledFunctionObject(
               concat(<<make("GetLocal", <<0>>), make("SetLocal", <<1>>),
                        make("GetGlobal", <<0>>), make("True", <<>>),
                        make("Call", <<1>>), make("Pop", <<>>),
                        make("GetLocal", <<1>>), make("ReturnValue", <<>>)>>),
               2, 1) >>),
      BytecodeWith("var addTwo = fn(x) { fn(y) { x + y } }(2); addTwo(3);",
        << make("Closure", <<3, 0>>), make("Constant", <<0>>),
           make("Call", <<1>>), make("SetGlobal", <<0>>),
           make("GetGlobal", <<0>>), make("Constant", <<1>>),
           make("Call", <<1>>), make("Pop", <<>>) >>,
        << IntObject(2), IntObject(3),
           \* 2: fn(y) { x + y }, x free
           CompiledFunctionObject(
               concat(<<make("GetFree", <<0>>), make("GetLocal", <<0>>),
                        make("Add", <<>>), make("ReturnValue", <<>>)>>),
               1, 1),
           \* 3: fn(x) { fn(y) { x + y } }
           CompiledFunctionObject(
               concat(<<make("GetLocal", <<0>>), make("Closure", <<2, 1>>),
                        make("ReturnValue", <<>>)>>),
               1, 1) >>),
      \* GetFree in a closure with nothing captured, and cut off
      BytecodeWith("", << make("GetFree", <<0>>) >>, <<>>),
      BytecodeWith("", << <<OpByte("GetFree")>> >>, <<>>) }

\* Bytecode assembled directly.
RawPrograms ==
    { Bytecode("", << make("Jump", <<0>>) >>),
      Bytecode("", << make("True", <<>>), make("Pop", <<>>), make("Jump", <<1>>) >>),
      \* index 1 is written while index 0 never was
      Bytecode("", << make("Constant", <<0>>), make("SetGlobal", <<1>>),
                      make("GetGlobal", <<1>>) >>),
      \* a loop over an empty array whose loop variable is global 0
      Bytecode("", << make("Constant", <<0>>), make("SetGlobal", <<0>>),
                      make("True", <<>>), make("SetGlobal", <<1>>),
                      make("Constant", <<1>>), make("Start", <<>>),
                      make("JumpEnd", <<22, 0>>), make("Jump", <<14>>),
                      make("GetGlobal", <<1>>) >>),
      \* a loop over an empty array whose loop variable was never stored
      Bytecode("", << make("Constant", <<1>>), make("Start", <<>>),
                      make("JumpEnd", <<9, 0>>), make("Nil", <<>>) >>),
      \* the loop test on a non-empty array
      Bytecode("", << make("Constant", <<2>>), make("Start", <<>>),
                      make("JumpEnd", <<10, 0>>), make("Pop", <<>>) >>),
      Bytecode("", << make("Nil", <<>>), make("JumpNotTruthy", <<0>>) >>),
      \* a method call followed by another instruction
      Bytecode("", << make("Constant", <<0>>), make("Method", <<1, 0, 0>>),
                      make("Pop", <<>>) >>),
      \* an iterator over [1, 2] advanced three times
      Bytecode("", << make("True", <<>>), make("Constant", <<2>>),
                      make("Start", <<>>), make("Next", <<>>), make("Pop", <<>>),
                      make("Next", <<>>), make("Pop", <<>>),
                      make("Next", <<>>) >>),
      \* closures that capture the values on top of the stack
      Bytecode("", << make("Constant", <<0>>), make("True", <<>>),
                      make("Nil", <<>>), make("Closure", <<3, 2>>),
                      make("Pop", <<>>) >>),
      Bytecode("", << make("True", <<>>), make("Constant", <<0>>),
                      make("Closure", <<4, 2>>), make("Closure", <<1, 1>>) >>),
      \* a method call with an argument
      Bytecode("", << make("Constant", <<0>>), make("True", <<>>),
                      make("Method", <<2, 1, 1>>), make("Pop", <<>>) >>),
      \* the recursive function with 200 locals
      Bytecode("", << make("Closure", <<8, 0>>), make("Call", <<0>>),
                      make("Pop", <<>>) >>) }

\* A constant pool of Ints.
IntConstants == <<IntObject(1), IntObject(5), IntObject(2), IntObject(0)>>

\* Programs over the Ints.
IntPrograms ==
    { BytecodeWith(src_ins[1], src_ins[2], IntConstants) : src_ins \in
        { <<"1..5..2;",
            << make("Constant", <<0>>), make("Constant", <<1>>),
               make("Constant", <<2>>), make("Range", <<1>>),
               make("Pop", <<>>) >> >>,
          <<"1..5;",
            << make("Constant", <<0>>), make("Constant", <<1>>),
               make("Range", <<0>>), make("Pop", <<>>) >> >>,
          <<"",
            << make("Constant", <<1>>), make("Constant", <<0>>),
               make("Constant", <<2>>), make("Constant", <<3>>),
               make("Range", <<0>>), make("Range", <<1>>) >> >>,
          <<"",
            << make("True", <<>>), make("Constant", <<0>>),
               make("Constant", <<1>>), make("Range", <<0>>) >> >>,
          <<"",
            << make("Constant", <<0>>), make("Nil", <<>>),
               make("Range", <<1>>) >> >> } }

\* Programs that compute with Ints.
ArithmeticPrograms ==
    { BytecodeWith("5 / 2;",
        << make("Constant", <<1>>), make("Constant", <<2>>),
           make("Div", <<>>), make("Pop", <<>>) >>, IntConstants),
      BytecodeWith("5 % 2;",
        << make("Constant", <<1>>), make("Constant", <<2>>),
           make("Mod", <<>>), make("Pop", <<>>) >>, IntConstants),
      BytecodeWith("1 / 0;",
        << make("Constant", <<0>>), make("Constant", <<3>>),
           make("Div", <<>>), make("Pop", <<>>) >>, IntConstants),
      BytecodeWith("1 + 5 * 2;",
        << make("Constant", <<0>>), make("Constant", <<1>>),
           make("Constant", <<2>>), make("Mul", <<>>), make("Add", <<>>),
           make("Pop", <<>>) >>, IntConstants),
      BytecodeWith("(0 - 5) / 2;",
        << make("Constant", <<3>>), make("Constant", <<1>>),
           make("Sub", <<>>), make("Constant", <<2>>), make("Div", <<>>),
           make("Pop", <<>>) >>, IntConstants),
      BytecodeWith("true + 1;",
        << make("True", <<>>), make("Constant", <<0>>), make("Add", <<>>),
           make("Pop", <<>>) >>, IntConstants),
      BytecodeWith("",
        << make("Constant", <<0>>), make("Sub", <<>>) >>, IntConstants),
      BytecodeWith("\"a\" + \"b\"; \"a\" - \"b\";",
        << make("Constant", <<0>>), make("Constant", <<1>>),
           make("Add", <<>>), make("Pop", <<>>),
           make("Constant", <<0>>), make("Constant", <<1>>),
           make("Sub", <<>>), make("Pop", <<>>) >>,
        << StrObject(<<97>>), StrObject(<<98>>) >>) }

\* Every binary opcode on every pair of the operands OperandInstrs push.
BinaryPrograms ==
    LET OperandInstrs ==
          { make("Constant", <<0>>), make("Constant", <<1>>),
            make("Constant", <<3>>), make("Constant", <<4>>),
            make("True", <<>>), make("Nil", <<>>) }
    IN
    { BytecodeWith("", <<a, b, make(op, <<>>)>>,
                   Append(IntConstants, StrObject(<<97, 98>>))) :
        a \in OperandInstrs, b \in OperandInstrs, op \in BinaryOpcodes }
    \cup
    { BytecodeWith("", <<make("Constant", <<3>>), make("Constant", <<1>>),
                        make("Sub", <<>>), make("Constant", <<2>>),
                        make(op, <<>>)>>, IntConstants) : op \in BinaryOpcodes }
    \cup
    { BytecodeWith("", <<make("Constant", <<2>>), make("Constant", <<3>>),
                        make("Constant", <<1>>), make("Sub", <<>>),
                        make(op, <<>>)>>, IntConstants) : op \in BinaryOpcodes }

\* Programs that index and slice.  Constants 0..5 are Ints, 6..8 are the
\* strings "abc", two chars of two bytes each, and "".
IndexConstants ==
    << IntObject(0), IntObject(1), IntObject(2), IntObject(3), IntObject(-1),
       IntObject(5), StrObject(<<97, 98, 99>>), StrObject(<<233, 233>>),
       StrObject(<<>>) >>

\* IndexedInstrs are the instructions that leave the indexed object on the
\* stack: [], the array [1, 2, 3, 5], and the three strings.
IndexPrograms ==
    LET IndexedInstrs ==
          { <<make("Array", <<0>>)>>,
            <<make("Constant", <<1>>), make("Constant", <<2>>),
              make("Constant", <<3>>), make("Constant", <<5>>),
              make("Array", <<4>>)>>,
            <<make("Constant", <<6>>)>>, <<make("Constant", <<7>>)>>,
            <<make("Constant", <<8>>)>> }
    IN
    { BytecodeWith("", t \o <<make("Constant", <<i>>), make("Index", <<>>),
                              make("Pop", <<>>)>>, IndexConstants) :
        t \in IndexedInstrs, i \in 0..5 }
    \cup
    { BytecodeWith("", t \o <<make("Constant", <<step>>),
                              make("Constant", <<start>>),
                              make("Constant", <<stop>>),
                              make("Range", <<0>>), make("Index", <<>>),
                              make("Pop", <<>>)>>, IndexConstants) :
        t \in IndexedInstrs, step \in {0, 1, 2, 4}, start \in 0..4,
        stop \in 0..4 }
    \cup
    { BytecodeWith("", <<x, y, make("Index", <<>>)>>, IndexConstants) :
        x \in {make("Constant", <<1>>), make("True", <<>>)},
        y \in {make("Constant", <<1>>), make("Nil", <<>>)} }
    \cup
    { BytecodeWith("", <<make("Constant", <<1>>), make("Array", <<2>>)>>,
                   IndexConstants),
      BytecodeWith("", <<make("Array", <<>>)>>, IndexConstants),
      BytecodeWith("", <<make("Index", <<>>)>>, IndexConstants) }

\* Programs that build a hash of two pairs and look a key up in it, for
\* keys that are Ints, a Str, a Bool, Null and an Array; and one with Char
\* keys.
HashPrograms ==
    LET KeyInstrs == { make("Constant", <<1>>), make("Constant", <<2>>),
                       make("Constant", <<6>>), make("True", <<>>),
                       make("Nil", <<>>), make("Array", <<0>>) }
        char == <<make("Constant", <<6>>), make("Constant", <<0>>),
                  make("Index", <<>>)>>
    IN
    { BytecodeWith("", <<k1, make("Constant", <<3>>), k2,
                        make("Constant", <<5>>), make("Dict", <<2>>), k,
                        make("Index", <<>>), make("Pop", <<>>)>>,
                   IndexConstants) :
        k1 \in KeyInstrs, k2 \in KeyInstrs, k \in KeyInstrs }
    \cup
    { BytecodeWith("", <<make("Dict", <<0>>), k, make("Index", <<>>)>>,
                   IndexConstants) : k \in KeyInstrs }
    \cup
    { BytecodeWith("", char \o <<make("Constant", <<3>>),
                                 make("Dict", <<1>>)>> \o char
                       \o <<make("Index", <<>>)>>, IndexConstants),
      BytecodeWith("", <<make("Constant", <<1>>), make("Dict", <<1>>)>>,
                   IndexConstants),
      BytecodeWith("", <<make("Dict", <<>>)>>, IndexConstants) }

\* Every opcode of Operators on every pair of the operands Operands push:
\* the Ints 0 and 1, the Str "", true, Null, [], the Floats 1.0,
\* 1.0 + EPSILON and 1.0 + 2 * EPSILON, and the Chars 'a' and 'b'.
OperatorPrograms ==
    LET Operators == {"And", "Or", "Equal", "NotEqual", "GreaterThan",
                      "GreaterThanEqual"}
        Operands ==
          { <<make("Constant", <<0>>)>>, <<make("Constant", <<1>>)>>,
            <<make("Constant", <<8>>)>>, <<make("True", <<>>)>>,
            <<make("Nil", <<>>)>>, <<make("Array", <<0>>)>>,
            <<make("Constant", <<9>>)>>, <<make("Constant", <<10>>)>>,
            <<make("Constant", <<11>>)>>,
            <<make("Constant", <<6>>), make("Constant", <<0>>),
              make("Index", <<>>)>>,
            <<make("Constant", <<6>>), make("Constant", <<1>>),
              make("Index", <<>>)>> }
    IN  { BytecodeWith("", a \o b \o <<make(op, <<>>)>>,
                       IndexConstants \o <<FloatObject(0), FloatObject(1),
                                           FloatObject(2)>>) :
            a \in Operands, b \in Operands, op \in Operators }
        \cup { BytecodeWith("", <<make("True", <<>>), make(op, <<>>)>>,
                            IndexConstants) : op \in Operators }

\* Programs that call built-in functions.
BuiltinPrograms ==
    { BytecodeWith("", ins, IntConstants) : ins \in
        { << make("GetBuiltin", <<0>>), make("Constant", <<0>>),
             make("True", <<>>), make("Call", <<2>>), make("Pop", <<>>) >>,
          << make("Constant", <<1>>), make("GetBuiltin", <<1>>),
             make("Call", <<0>>), make("Pop", <<>>) >>,
          << make("GetBuiltin", <<1>>), make("Constant", <<2>>),
             make("Call", <<1>>), make("GetBuiltin", <<0>>),
             make("Call", <<1>>) >>,
          << make("GetBuiltin", <<0>>), make("Call", <<1>>) >>,
          << make("True", <<>>), make("GetBuiltin", <<2>>) >>,
          << make("GetBuiltin", <<1>>), make("Nil", <<>>),
             make("Closure", <<0, 0>>) >> } }

\* The instructions that push one value and take none.
PushInstrs ==
    { make("Constant", <<0>>), make("True", <<>>), make("False", <<>>),
      make("Nil", <<>>), make("GetGlobal", <<0>>), make("GetLocal", <<0>>),
      make("Dup", <<>>), make("CurrentClosure", <<>>),
      make("Closure", <<1, 0>>) }

\* Programs that fill the operand stack: a function with 255 locals that
\* executes x, drops the value and calls itself.  Every call raises sp by
\* 256, so the eighth call leaves sp = STACK_SIZE and x is executed on a full
\* stack.
FullStackPrograms ==
    { BytecodeWith("",
        << make("Closure", <<1, 0>>), make("SetGlobal", <<0>>),
           make("GetGlobal", <<0>>), make("Call", <<0>>), make("Pop", <<>>) >>,
        << IntObject(7),
           CompiledFunctionObject(
               concat(<<x, make("Pop", <<>>), make("CurrentClosure", <<>>),
                        make("Call", <<0>>), make("ReturnValue", <<>>)>>),
               255, 0) >>) : x \in PushInstrs }

\* The instructions the generated programs are made of; <<255>> is a byte
\* that is no opcode.
InstrSet ==
    { make("Constant", <<0>>), make("Constant", <<1>>), make("Constant", <<9>>),
      make("True", <<>>), make("False", <<>>), make("Nil", <<>>),
      make("Pop", <<>>), make("PopNoRet", <<>>), make("Dup", <<>>),
      make("SetGlobal", <<0>>), make("SetGlobal", <<1>>),
      make("GetGlobal", <<0>>), make("GetGlobal", <<1>>),
      make("Delete", <<0>>),
      make("Closure", <<3, 0>>), make("Closure", <<4, 0>>),
      make("Closure", <<5, 0>>), make("Closure", <<6, 0>>),
      make("Closure", <<0, 0>>),
      make("Call", <<0>>), make("Call", <<1>>),
      make("ReturnValue", <<>>), make("Return", <<>>),
      make("SetLocal", <<0>>), make("GetLocal", <<0>>),
      make("Start", <<>>), make("Next", <<>>), make("Mod", <<>>), <<255>> }

\* The longest generated program, in instructions.
MaxInstrs == 2

RECURSIVE InstrSeqs(_)
InstrSeqs(n) ==
    IF n = 0 THEN {<<>>}
    ELSE LET shorter == InstrSeqs(n - 1)
         IN  shorter \cup { Append(p, i) : p \in { q \in shorter : Len(q) = n - 1 },
                                           i \in InstrSet }

GeneratedPrograms == { Bytecode("", p) : p \in InstrSeqs(MaxInstrs) }

Programs ==
    CompiledPrograms \cup RawPrograms \cup FullStackPrograms \cup IntPrograms
    \cup BuiltinPrograms \cup ArithmeticPrograms \cup BinaryPrograms
    \cup IndexPrograms \cup HashPrograms \cup OperatorPrograms
    \cup ClosurePrograms \cup ForPrograms
        \cup GeneratedPrograms

\* ------------------------------------------------------------- the machine

Init ==
    /\ bytecode \in Programs
    /\ build \in {"debug", "release"}
    /\ vm = VMNew(bytecode, <<>>)
    /\ status = "running"
    /\ error = <<>>
    /\ last = [op |-> "", pos |-> 0, fi |-> 0, sp |-> 0, arg |-> 0, branch |-> ""]
    /\ calls = <<>>
    /\ stored = <<>>
    /\ asm = [stage |-> "none"]
    /\ repl = [stage |-> "none"]

Next ==
    \/ RunReturnsOk
    \/ RunEmptyPanics
    \/ BadOpcode
    \/ OpConstant
    \/ OpPop
    \/ OpPopNoRet
    \/ OpDup
    \/ OpTrue
    \/ OpFalse
    \/ OpNil
    \/ OpJump
    \/ OpJumpNotTruthy
    \/ OpSetGlobal
    \/ OpGetGlobal
    \/ OpGetBuiltin
    \/ OpBinary
    \/ OpBoolean
    \/ OpComparison
    \/ OpCall
    \/ OpReturnValue
    \/ OpReturn
    \/ OpSetLocal
    \/ OpGetLocal
    \/ OpClosure
    \/ OpCurrentClosure
    \/ OpGetFree
    \/ OpMethod
    \/ OpStart
    \/ OpNext
    \/ OpRange
    \/ OpArray
    \/ OpHash
    \/ OpIndex
    \/ OpJumpEnd
    \/ OpDelete
    \/ OpTodo

Spec == Init /\ [][Next]_vars

\* ------------------------------------------------------------- make and read_operands
\* The encoder and the decoder on their own, as test_make and
\* test_read_operands use them: every opcode of the Definition table with
\* every tuple of operands drawn from values at the edges of each width.
CodecInit ==
    LET Values(w) == CASE w = 1 -> {0, 1, 255}
                       [] w = 2 -> {0, 1, 255, 256, 65534, 65535}
                       [] OTHER -> {0, 1, 255, 256, 65536, 16777216, 2147483647}
        Tuples(widths) ==
            [1..Len(widths) -> UNION {Values(widths[k]) : k \in 1..Len(widths)}]
        Fits(widths, t) == \A i \in 1..Len(widths) : t[i] \in Values(widths[i])
    IN  /\ bytecode = [source |-> "", instructions |-> <<>>, constants |-> <<>>]
        /\ build \in {"debug", "release"}
        /\ vm = VMNew(bytecode, <<>>)
        /\ status = "idle"
        /\ error = <<>>
        /\ last = [op |-> "", pos |-> 0, fi |-> 0, sp |-> 0, arg |-> 0,
                   branch |-> ""]
        /\ calls = <<>>
        /\ stored = <<>>
        /\ repl = [stage |-> "none"]
        /\ \E d \in 1..Len(DEFINITIONS) :
             \E t \in Tuples(DEFINITIONS[d].operand_widths) :
               /\ Fits(DEFINITIONS[d].operand_widths, t)
               /\ asm = [stage |-> "new", op |-> DEFINITIONS[d].name,
                         operands |-> t, instruction |-> <<>>,
                         read |-> <<>>, n |-> 0]

\* let instruction = make(op, &operands);
Assemble ==
    /\ asm.stage = "new"
    /\ asm' = [asm EXCEPT !.stage = "made",
                          !.instruction = make(asm.op, asm.operands)]
    /\ UNCHANGED <<bytecode, build, vm, status, error, last, calls, stored, repl>>

\* let (operands_read, n) = read_operands(&def, &instruction[1..]);
Disassemble ==
    /\ asm.stage = "made"
    /\ LET r == read_operands(operand_widths(asm.op), Tail(asm.instruction))
       IN  asm' = [asm EXCEPT !.stage = "read", !.read = r.operands,
                             !.n = r.offset]
    /\ UNCHANGED <<bytecode, build, vm, status, error, last, calls, stored, repl>>

CodecNext == Assemble \/ Disassemble

CodecSpec == CodecInit /\ [][CodecNext]_vars

\* ------------------------------------------------------------- start_repl
\* The loop of start_repl for Engine::VM.  The lines a session reads are
\* drawn from Lines; a line is a declaration `var <defines> = <value>;`,
\* whose value is a literal (a Constant) or a literal Str indexed by a
\* literal Int, or an expression statement `<reads>;`.  The symbol table is
\* the sequence of the names of the globals in the order of their
\* definition (the built-ins defined first are no globals).

\* The number of lines a session reads.
MaxLines == 3

Lines ==
    { [text |-> "var a = 7;", defines |-> "a", reads |-> "",
       literals |-> <<IntObject(7)>>],
      [text |-> "var b = \"abc\"[5];", defines |-> "b", reads |-> "",
       literals |-> <<StrObject(<<97, 98, 99>>), IntObject(5)>>],
      [text |-> "a;", defines |-> "", reads |-> "a", literals |-> <<>>],
      [text |-> "b;", defines |-> "", reads |-> "b", literals |-> <<>>] }

\* compiler::new_with_state(symbol_table, constants), compile(program),
\* get_symbol_table() and bytecode(): a declaration is its value and
\* SetGlobal of the symbol define() gives the name, the next index; an
\* expression statement is GetGlobal of the symbol the name resolves to, and
\* Pop, or the error `undefined variable`; literals are added to the
\* constants given.
compile(line, symbol_table, consts) ==
    LET n == Len(consts)
        resolve(name) ==
            CHOOSE i \in 0..(Len(symbol_table) - 1) :
                /\ symbol_table[i + 1] = name
                /\ \A j \in (i + 1)..(Len(symbol_table) - 1) :
                     symbol_table[j + 1] # name
        value == IF Len(line.literals) = 1
                     THEN <<make("Constant", <<n>>)>>
                     ELSE <<make("Constant", <<n>>), make("Constant", <<n + 1>>),
                            make("Index", <<>>)>>
    IN  IF line.defines # ""
            THEN [res |-> "Ok",
                  symbol_table |-> Append(symbol_table, line.defines),
                  bytecode |->
                    BytecodeWith(line.text,
                        value \o <<make("SetGlobal", <<Len(symbol_table)>>)>>,
                        consts \o line.literals)]
        ELSE IF \A i \in 1..Len(symbol_table) : symbol_table[i] # line.reads
            THEN [res |-> "Err", msg |-> <<"undefined variable ", line.reads>>]
        ELSE [res |-> "Ok",
              symbol_table |-> symbol_table,
              bytecode |->
                BytecodeWith(line.text,
                    <<make("GetGlobal", <<resolve(line.reads)>>),
                      make("Pop", <<>>)>>,
                    consts)]

ReplInit ==
    /\ bytecode = [source |-> "", instructions |-> <<>>, constants |-> <<>>]
    /\ build \in {"debug", "release"}
    /\ vm = VMNew(bytecode, <<>>)
    /\ status = "idle"
    /\ error = <<>>
    /\ last = [op |-> "", pos |-> 0, fi |-> 0, sp |-> 0, arg |-> 0, branch |-> ""]
    /\ calls = <<>>
    /\ stored = <<>>
    /\ asm = [stage |-> "none"]
    /\ repl = [stage |-> "prompt", symbol_table |-> <<>>, constants |-> <<>>,
               globals |-> <<>>,
               before |-> [symbol_table |-> <<>>, constants |-> <<>>,
                           globals |-> <<>>],
               outcome |-> "", lines |-> 0]

\* One turn of the loop up to machine.run(): the line is read, parsed and
\* compiled.  On a compiler error the loop continues; otherwise symbol_table
\* and constants are assigned and the VM is made over the globals.
ReadLine ==
    /\ repl.stage = "prompt"
    /\ repl.lines < MaxLines
    /\ \E line \in Lines :
         LET comp == compile(line, repl.symbol_table, repl.constants)
             read == [repl EXCEPT
                        !.before = [symbol_table |-> repl.symbol_table,
                                    constants |-> repl.constants,
                                    globals |-> repl.globals],
                        !.lines = @ + 1]
         IN  IF comp.res = "Err"
                 THEN /\ repl' = [read EXCEPT !.outcome = "compiler error"]
                      /\ UNCHANGED <<bytecode, vm, status, error, last, calls,
                                     stored>>
                 ELSE /\ repl' = [read EXCEPT
                                    !.stage = "run", !.outcome = "",
                                    !.symbol_table = comp.symbol_table,
                                    !.constants = comp.bytecode.constants]
                      /\ bytecode' = comp.bytecode
                      /\ vm' = VMNew(comp.bytecode, repl.globals)
                      /\ status' = "running"
                      /\ error' = <<>>
                      /\ last' = [op |-> "", pos |-> 0, fi |-> 0, sp |-> 0,
                                  arg |-> 0, branch |-> ""]
                      /\ calls' = <<>>
                      /\ stored' = <<>>
    /\ UNCHANGED <<build, asm>>

\* machine.run() returned Err: the error is printed and the loop continues.
RunFailed ==
    /\ repl.stage = "run"
    /\ status = "err"
    /\ repl' = [repl EXCEPT !.stage = "prompt", !.outcome = "vm error"]
    /\ status' = "idle"
    /\ UNCHANGED <<bytecode, build, vm, error, last, calls, stored, asm>>

\* machine.run() returned Ok: `globals = machine.get_globals()`.
RunDone ==
    /\ repl.stage = "run"
    /\ status = "ok"
    /\ repl' = [repl EXCEPT !.stage = "prompt", !.outcome = "ok",
                            !.globals = vm.globals]
    /\ status' = "idle"
    /\ UNCHANGED <<bytecode, build, vm, error, last, calls, stored, asm>>

\* The session: the turns of the loop and, in between, the steps of run()
\* on the opcodes the lines compile to.  A panic of run() ends the process.
ReplNext ==
    \/ ReadLine
    \/ RunFailed
    \/ RunDone
    \/ RunReturnsOk
    \/ OpConstant
    \/ OpPop
    \/ OpSetGlobal
    \/ OpGetGlobal
    \/ OpIndex

ReplSpec == ReplInit /\ [][ReplNext]_vars

\* ------------------------------------------------------------- instructions_to_string
\* The disassembler on every byte sequence of at most MaxBytes bytes drawn
\* from Constant (a two-byte operand), Pop (no operand), Closure (a two-byte
\* and a one-byte operand) and 255, which is no opcode.  `out` is only ever
\* appended to: asm.out holds its lines, of which no more than MaxErrorLines
\* ERROR lines are kept.
MaxBytes == 4

MaxErrorLines == 2

DisasmInit ==
    LET Bytes == {OpByte("Constant"), OpByte("Pop"), OpByte("Closure"), 255}
    IN  /\ bytecode = [source |-> "", instructions |-> <<>>, constants |-> <<>>]
        /\ build \in {"debug", "release"}
        /\ vm = VMNew(bytecode, <<>>)
        /\ status = "idle"
        /\ error = <<>>
        /\ last = [op |-> "", pos |-> 0, fi |-> 0, sp |-> 0, arg |-> 0,
                   branch |-> ""]
        /\ calls = <<>>
        /\ stored = <<>>
        /\ repl = [stage |-> "none"]
        /\ \E n \in 0..MaxBytes : \E ins \in [1..n -> Bytes] :
             asm = [stage |-> "loop", ins |-> ins, i |-> 0, out |-> <<>>,
                    errors |-> 0]

\* One iteration of `while i < ins.len()`: lookup_definition(ins[i]); on Err
\* the ERROR line is written and the loop continues, i as it was; on Ok
\* read_operands (whose slices panic past the end of ins), the line of
\* fmt_instruction, and `i += read + 1`.
DisasmIterate ==
    /\ asm.stage = "loop"
    /\ asm.i < Len(asm.ins)
    /\ LET op == asm.ins[asm.i + 1]
           widths == DEFINITIONS[op + 1].operand_widths
           r == read_operands(widths, SubSeq(asm.ins, asm.i + 2, Len(asm.ins)))
       IN  asm' =
             IF ~IsOpcode(op)
                 THEN IF asm.errors < MaxErrorLines
                          THEN [asm EXCEPT
                                  !.out = Append(@, <<"ERROR: opcode ", op,
                                                      " undefined">>),
                                  !.errors = @ + 1]
                          ELSE asm
             ELSE IF ~InBounds(asm.ins, asm.i + 1, SumSeq(widths))
                 THEN [asm EXCEPT !.stage = "panic"]
             ELSE [asm EXCEPT
                     !.out = Append(@, <<asm.i, OpName(op), r.operands>>),
                     !.i = @ + r.offset + 1]
    /\ UNCHANGED <<bytecode, build, vm, status, error, last, calls, stored, repl>>

\* The loop condition is false: instructions_to_string returns `out`.
DisasmReturn ==
    /\ asm.stage = "loop"
    /\ asm.i >= Len(asm.ins)
    /\ asm' = [asm EXCEPT !.stage = "returned"]
    /\ UNCHANGED <<bytecode, build, vm, status, error, last, calls, stored, repl>>

DisasmNext == DisasmIterate \/ DisasmReturn

\* The call runs on: whenever the loop can take a step that changes its
\* state, it takes one.
DisasmSpec == DisasmInit /\ [][DisasmNext]_vars /\ WF_vars(DisasmNext)

\* Every opcode a run fetches is one the model has an action for.
Modelled ==
    { "Constant", "Pop", "PopNoRet", "Dup", "True", "False", "Nil", "Jump",
      "JumpNotTruthy", "SetGlobal", "GetGlobal", "Call", "ReturnValue",
      "Return", "SetLocal", "GetLocal", "Closure", "CurrentClosure", "Method",
      "Start", "Next", "JumpEnd", "Delete", "Range", "GetBuiltin", "Array", "Dict", "Index" }
        \cup BinaryOpcodes \cup {"And", "Or", "GetFree", "Equal", "NotEqual", "GreaterThan",
                "GreaterThanEqual"} \cup TodoOpcodes

FetchesModelled ==
    (Running /\ LoopCond /\ IsOpcode(CurIns[NextPos + 1]))
        => OpName(CurIns[NextPos + 1]) \in Modelled

\* ------------------------------------------------------------- properties

\* The value on top of the operand stack.
Top == StackGet(vm.stack, vm.sp - 1)

\* The loop is about to execute Call n on a Closure that takes n parameters.
CallsClosure(n) ==
    /\ Fetch("Call")
    /\ InBounds(CurIns, NextPos + 1, 1)
    /\ read_u8(CurIns, NextPos + 1) = n
    /\ vm.sp >= 1 + n
    /\ vm.sp - 1 - n < STACK_SIZE
    /\ StackGet(vm.stack, vm.sp - 1 - n).kind = "Closure"
    /\ Func(StackGet(vm.stack, vm.sp - 1 - n)).num_parameters = n

\* C1: closure call protocol.  A Call nargs whose callee, at
\* stack[sp - 1 - nargs], is a Closure with num_parameters = nargs pushes
\* exactly one new frame, for that closure and with bp = sp - nargs (sp as
\* before the call), leaves the frames below as they were but for the caller's
\* ip moving onto the operand byte, sets sp = bp + num_locals, raises
\* frames_index by one, and leaves the callee at stack[bp - 1] and the
\* arguments in stack[bp .. bp + nargs).
C1_ClosureCallProtocol ==
    [][ \A n \in 0..255 :
          CallsClosure(n) =>
            LET bp == vm.sp - n
                callee == StackGet(vm.stack, vm.sp - 1 - n)
                depth == Len(vm.frames)
            IN  /\ status' = "running"
                /\ vm'.frames_index = vm.frames_index + 1
                /\ Len(vm'.frames) = depth + 1
                /\ vm'.frames[depth + 1].cl = callee
                /\ vm'.frames[depth + 1].bp = bp
                /\ SubSeq(vm'.frames, 1, depth)
                     = [vm.frames EXCEPT ![depth].ip = NextPos + 1]
                /\ vm'.sp = bp + Func(callee).num_locals
                /\ StackGet(vm'.stack, bp - 1) = callee
                /\ \A i \in bp..(bp + n - 1) :
                     StackGet(vm'.stack, i) = StackGet(vm.stack, i)
      ]_vars

\* A closure with parameters and further locals has just been entered by a
\* Call with arguments.
C1_Witness ==
    /\ status = "running"
    /\ last.op = "Call" /\ last.branch = "closure"
    /\ last.arg >= 1
    /\ vm.frames_index = last.fi + 1
    /\ Cur.bp = last.sp - last.arg
    /\ Func(Cur.cl).num_locals > last.arg
    /\ StackGet(vm.stack, Cur.bp).kind = "Int"

\* The loop is about to execute ReturnValue with a value on top of the stack,
\* or Return, in a frame that a closure Call entered.
ReturnsFromCall ==
    /\ calls # <<>>
    /\ \/ Fetch("Return")
       \/ Fetch("ReturnValue") /\ vm.sp \in 1..STACK_SIZE

\* C2: return protocol.  When a frame entered by a closure Call nargs executes
\* ReturnValue with v on top of the stack (Return: v = Null), exactly one
\* frame is popped, sp becomes that frame's bp - 1 plus the one push of v;
\* afterwards frames_index is what it was before the Call, sp is (sp before
\* the Call) - nargs, v is in the slot that held the callee, and the caller's
\* next fetch is the instruction after its Call.
C2_ReturnProtocol ==
    [][ ReturnsFromCall =>
          LET c == calls[Len(calls)]
              v == IF Fetch("Return") THEN NULL ELSE Top
              depth == Len(vm.frames)
          IN  /\ status' = "running"
              /\ vm'.frames = SubSeq(vm.frames, 1, depth - 1)
              /\ vm'.frames_index = vm.frames_index - 1
              /\ vm'.frames_index = c.fi
              /\ vm'.sp = (vm.frames[depth].bp - 1) + 1
              /\ vm'.sp = c.sp - c.nargs
              /\ StackGet(vm'.stack, c.sp - 1 - c.nargs) = v
              /\ current_frame(vm').ip + 1 = c.pos + 1 + operand_width("Call")
      ]_vars

\* A ReturnValue has just handed a value back to the caller of a closure that
\* was called with arguments.
C2_Witness ==
    /\ status = "running"
    /\ last.op = "ReturnValue"
    /\ last.fi > 1
    /\ last.arg >= 1
    /\ vm.frames_index = last.fi - 1
    /\ vm.sp >= 1
    /\ Top.kind \in {"Int", "Bool"}

\* C3: whenever run() returns Ok, frames_index is 1: no frame pushed by a
\* closure Call is still on the frame stack.
C3_OkAtMainFrame == status = "ok" => vm.frames_index = 1

\* C4: whenever run() returns Ok on a top-level program (the compilation of a
\* source text), sp is 0.
C4_OkEmptyStack == (status = "ok" /\ bytecode.source # "") => vm.sp = 0

\* The last step was one of the instructions that set ip to a target: a Jump,
\* a taken JumpNotTruthy or JumpEnd, a closure Call, ReturnValue or Return.
SetsIp ==
    \/ last.op \in {"Jump", "ReturnValue", "Return"}
    \/ last.op \in {"JumpNotTruthy", "JumpEnd"} /\ last.branch = "taken"
    \/ last.op = "Call" /\ last.branch = "closure"

\* C5: instruction-pointer advance.  After an instruction at position p,
\* other than those that set ip to a target, the next opcode fetched is the
\* byte at p + 1 + w, w the total operand width of the opcode's Definition.
C5_IpAdvance ==
    (status = "running" /\ last.op \in Modelled /\ ~SetsIp)
        => NextPos = last.pos + 1 + operand_width(last.op)

\* The loop is about to execute a jump to addr that will be taken: Jump, or
\* JumpNotTruthy on a value that is not truthy, or JumpEnd on an exhausted
\* iterator whose loop variable is a global.
JumpTaken(addr) ==
    \/ /\ Fetch("Jump")
       /\ InBounds(CurIns, NextPos + 1, 2)
       /\ read_u16(CurIns, NextPos + 1) = addr
    \/ /\ Fetch("JumpNotTruthy")
       /\ InBounds(CurIns, NextPos + 1, 2)
       /\ read_u16(CurIns, NextPos + 1) = addr
       /\ vm.sp \in 1..STACK_SIZE
       /\ ~is_truthy(Top)
    \/ /\ Fetch("JumpEnd")
       /\ InBounds(CurIns, NextPos + 1, 4)
       /\ read_u16(CurIns, NextPos + 1) = addr
       /\ vm.sp \in 1..STACK_SIZE
       /\ Top.kind = "Iter"
       /\ Top.current >= Top.size
       /\ read_u16(CurIns, NextPos + 3) < Len(vm.globals)

\* C6: jump target.  After a taken jump to addr, 0 <= addr < instructions.len
\* (addr = 0 included), the loop goes on and the next opcode it fetches is the
\* byte at position addr of the same frame.
C6_JumpTarget ==
    [][ \A addr \in 0..(Len(CurIns) - 1) :
          JumpTaken(addr) =>
            /\ status' = "running"
            /\ vm'.frames_index = vm.frames_index
            /\ current_frame(vm').ip + 1 = addr
      ]_vars

\* The loop is about to remove global idx: Delete idx, or a JumpEnd that
\* leaves the loop and removes the loop variable idx.
RemovesGlobal(idx) ==
    /\ idx < Len(vm.globals)
    /\ \/ /\ Fetch("Delete")
          /\ InBounds(CurIns, NextPos + 1, 2)
          /\ read_u16(CurIns, NextPos + 1) = idx
       \/ /\ Fetch("JumpEnd")
          /\ InBounds(CurIns, NextPos + 1, 4)
          /\ read_u16(CurIns, NextPos + 3) = idx
          /\ vm.sp \in 1..STACK_SIZE
          /\ Top.kind = "Iter"
          /\ Top.current >= Top.size

\* C7: global indices are stable.  Removing global idx leaves every other
\* global j at its index with its value (what GetGlobal j pushes).
C7_GlobalIndicesStable ==
    [][ \A idx \in 0..(Len(vm.globals) - 1) :
          RemovesGlobal(idx) =>
            \A j \in (0..(Len(vm.globals) - 1)) \ {idx} :
                /\ j < Len(vm'.globals)
                /\ vm'.globals[j + 1] = vm.globals[j + 1]
      ]_vars

\* C8: global store round trip.  A GetGlobal idx (with room on the stack)
\* that follows a SetGlobal idx of v, with no SetGlobal idx, Delete or
\* loop-exiting JumpEnd in between, pushes v, whatever the order in which
\* the indices were first written.
C8_GlobalRoundTrip ==
    (last.op = "GetGlobal" /\ last.arg \in DOMAIN stored /\ last.sp < STACK_SIZE)
        => /\ status = "running"
           /\ vm.sp = last.sp + 1
           /\ Top = stored[last.arg]

\* C9: stack growth is bounded.  While run() executes, sp <= STACK_SIZE, also
\* right after a closure Call has set sp = bp + num_locals.
C9_StackBounded == status = "running" => vm.sp <= STACK_SIZE

\* C10: the frame stack is bounded by MAX_FRAMES: frames_index never exceeds
\* it (a Call that would push a frame beyond it does not push it).
C10_FramesBounded == vm.frames_index <= MAX_FRAMES

\* The loop is about to execute an instruction that goes straight to a push
\* of one value, on a full stack.
PushesOnFullStack ==
    /\ vm.sp = STACK_SIZE
    /\ \/ Fetch("True") \/ Fetch("False") \/ Fetch("Nil")
       \/ Fetch("Dup") \/ Fetch("CurrentClosure")
       \/ /\ Fetch("Constant")
          /\ InBounds(CurIns, NextPos + 1, 2)
          /\ read_u16(CurIns, NextPos + 1) < Len(constants)
       \/ /\ Fetch("GetGlobal")
          /\ InBounds(CurIns, NextPos + 1, 2)
          /\ read_u16(CurIns, NextPos + 1) < Len(vm.globals)
       \/ /\ Fetch("GetLocal")
          /\ InBounds(CurIns, NextPos + 1, 1)
          /\ Cur.bp + read_u8(CurIns, NextPos + 1) < STACK_SIZE
       \/ /\ Fetch("Closure")
          /\ InBounds(CurIns, NextPos + 1, 3)
          /\ read_u16(CurIns, NextPos + 1) < Len(constants)
          /\ constants[read_u16(CurIns, NextPos + 1) + 1].kind = "CompiledFunction"
          /\ read_u8(CurIns, NextPos + 3) = 0

\* C11: a push attempted when sp = STACK_SIZE makes run() return the error
\* `stack overflow`, and changes neither sp nor any stack slot.
C11_PushOnFullStack ==
    [][ PushesOnFullStack =>
          /\ status' = "err"
          /\ error' = <<"stack overflow">>
          /\ vm'.sp = vm.sp
          /\ vm'.stack = vm.stack
      ]_vars

\* run() has returned `stack overflow` from a Dup on a full stack.
C11_Witness ==
    /\ status = "err"
    /\ error = <<"stack overflow">>
    /\ last.op = "Dup"
    /\ last.sp = STACK_SIZE
    /\ vm.sp = STACK_SIZE

\* C12: failure semantics.  When an instruction yields a runtime error, run()
\* returns that error string at once: no later instruction is fetched or
\* executed, so globals, frames and the operand stack are as the failing
\* instruction left them.
C12_FailureStops ==
    [][ /\ (status = "running" /\ status' = "err") => error' # <<>>
        /\ status = "err" => (vm' = vm /\ status' = "err" /\ error' = error)
      ]_vars

\* run() has returned an error although the current frame has instructions
\* left to execute.
C12_Witness ==
    /\ status = "err"
    /\ error # <<>>
    /\ last.op \in Modelled
    /\ vm.frames_index >= 1
    /\ LoopCond
    /\ IsOpcode(CurIns[NextPos + 1])

\* The loop is about to execute a Closure instruction on a constant that
\* exists.
FetchesClosure ==
    /\ Fetch("Closure")
    /\ InBounds(CurIns, NextPos + 1, 3)
    /\ read_u16(CurIns, NextPos + 1) < Len(constants)

\* C13: closure construction.  Closure cid nfree on a CompiledFunction
\* constant, with nfree values on the stack and room for the result, takes
\* the top nfree values off and pushes a Closure of constants[cid] whose
\* free[i] is the former stack[sp - nfree + i]: sp changes by 1 - nfree and
\* the slots below are untouched.  On any other constant it returns an error
\* that begins with `not a function` and leaves sp unchanged.
C13_ClosureConstruction ==
    [][ FetchesClosure =>
          LET cid == read_u16(CurIns, NextPos + 1)
              nfree == read_u8(CurIns, NextPos + 3)
          IN
            IF constants[cid + 1].kind = "CompiledFunction"
                THEN (nfree <= vm.sp /\ vm.sp <= STACK_SIZE
                      /\ vm.sp - nfree < STACK_SIZE)
                     => /\ status' = "running"
                        /\ vm'.sp = vm.sp + 1 - nfree
                        /\ StackGet(vm'.stack, vm'.sp - 1).kind = "Closure"
                        /\ Func(StackGet(vm'.stack, vm'.sp - 1)) = constants[cid + 1]
                        /\ Len(StackGet(vm'.stack, vm'.sp - 1).free) = nfree
                        /\ \A i \in 0..(nfree - 1) :
                             StackGet(vm'.stack, vm'.sp - 1).free[i + 1]
                               = StackGet(vm.stack, vm.sp - nfree + i)
                        /\ \A k \in 0..(vm.sp - nfree - 1) :
                             StackGet(vm'.stack, k) = StackGet(vm.stack, k)
                ELSE /\ status' = "err"
                     /\ error'[1] = "not a function: "
                     /\ vm'.sp = vm.sp
      ]_vars

\* A Closure instruction has just captured two different values.
C13_Witness ==
    /\ status = "running"
    /\ last.op = "Closure"
    /\ vm.sp = last.sp - 1
    /\ vm.sp >= 2
    /\ Len(StackGet(vm.stack, vm.sp - 1).free) = 2
    /\ StackGet(vm.stack, vm.sp - 1).free[1] # StackGet(vm.stack, vm.sp - 1).free[2]

\* C14: Next.  With Iter{source, size, current = c} on top of the stack (and
\* room for one more value), Next puts Iter{source, size, current = c + 1} in
\* its place and pushes source.get(c) above it; everything below is
\* untouched.  If the top of the stack is no Iter, run() returns the error
\* `Object is not an iterator`.
C14_Next ==
    [][ (Fetch("Next") /\ vm.sp \in 1..STACK_SIZE) =>
          IF Top.kind = "Iter"
              THEN vm.sp < STACK_SIZE
                   => /\ status' = "running"
                      /\ vm'.sp = vm.sp + 1
                      /\ StackGet(vm'.stack, vm.sp - 1)
                           = IterObject(Top.iter, Top.size, Top.current + 1)
                      /\ StackGet(vm'.stack, vm.sp) = get(Top.iter, Top.current)
                      /\ \A k \in 0..(vm.sp - 2) :
                           StackGet(vm'.stack, k) = StackGet(vm.stack, k)
              ELSE /\ status' = "err"
                   /\ error' = <<"Object is not an iterator">>
      ]_vars

\* Next has just produced the second element of an array.
C14_Witness ==
    /\ status = "running"
    /\ last.op = "Next"
    /\ vm.sp = last.sp + 1
    /\ StackGet(vm.stack, vm.sp - 2).kind = "Iter"
    /\ StackGet(vm.stack, vm.sp - 2).current = 2
    /\ Top = IntObject(2)

\* The loop is about to execute JumpEnd with an Iter on top of the stack.
FetchesJumpEnd ==
    /\ Fetch("JumpEnd")
    /\ InBounds(CurIns, NextPos + 1, 4)
    /\ vm.sp \in 1..STACK_SIZE
    /\ Top.kind = "Iter"

\* C15: JumpEnd addr sym_idx with Iter{current, size} on top of the stack.
\* If current >= size the Iter is popped, no global but the loop variable's
\* entry globals[sym_idx] is removed, and the next fetch is at addr; this
\* includes the empty iterable, whose loop variable was never stored.  If
\* current < size the stack and the globals are unchanged and the next fetch
\* is the following instruction.
C15_JumpEnd ==
    [][ FetchesJumpEnd =>
          LET addr == read_u16(CurIns, NextPos + 1)
              sym_idx == read_u16(CurIns, NextPos + 3)
              n == Len(vm.globals)
          IN  IF Top.current >= Top.size
                  THEN /\ status' = "running"
                       /\ vm'.sp = vm.sp - 1
                       /\ \A k \in 0..(vm.sp - 2) :
                            StackGet(vm'.stack, k) = StackGet(vm.stack, k)
                       /\ Len(vm'.globals) >= (IF sym_idx < n THEN n - 1 ELSE n)
                       /\ \A j \in (1..n) \ {sym_idx + 1} :
                            \E k \in 1..Len(vm'.globals) :
                                vm'.globals[k] = vm.globals[j]
                       /\ current_frame(vm').ip + 1 = addr
                  ELSE /\ status' = "running"
                       /\ vm'.sp = vm.sp
                       /\ vm'.stack = vm.stack
                       /\ vm'.globals = vm.globals
                       /\ current_frame(vm').ip + 1
                            = NextPos + 1 + operand_width("JumpEnd")
      ]_vars

\* The loop is about to execute Range has_step with the Ints it takes (three
\* with a step, two without) on top of the stack.
FetchesRange ==
    /\ Fetch("Range")
    /\ InBounds(CurIns, NextPos + 1, 1)
    /\ LET n == IF read_bool(CurIns, NextPos + 1) THEN 3 ELSE 2
       IN  /\ vm.sp \in n..STACK_SIZE
           /\ \A k \in 1..n : StackGet(vm.stack, vm.sp - k).kind = "Int"

\* C16: Range.  With has_step = 1 and start, stop, step pushed in that
\* order, Range pops those three and pushes Range{start, stop, step}; with
\* has_step = 0 and start, stop pushed in that order it pops those two and
\* pushes a Range with that start and stop.  sp ends at sp - popped + 1.
C16_Range ==
    [][ FetchesRange =>
          IF read_bool(CurIns, NextPos + 1)
              THEN /\ status' = "running"
                   /\ vm'.sp = vm.sp - 3 + 1
                   /\ StackGet(vm'.stack, vm'.sp - 1)
                        = RangeObject(StackGet(vm.stack, vm.sp - 3).value,
                                      StackGet(vm.stack, vm.sp - 2).value,
                                      StackGet(vm.stack, vm.sp - 1).value)
              ELSE /\ status' = "running"
                   /\ vm'.sp = vm.sp - 2 + 1
                   /\ StackGet(vm'.stack, vm'.sp - 1).kind = "Range"
                   /\ StackGet(vm'.stack, vm'.sp - 1).start
                        = StackGet(vm.stack, vm.sp - 2).value
                   /\ StackGet(vm'.stack, vm'.sp - 1).stop
                        = StackGet(vm.stack, vm.sp - 1).value
      ]_vars

\* The method ids of the Method instructions looked at.
MethodIds == {0, 1, 2}

\* The loop is about to execute the instruction make(Method, [method_id,
\* has_args, nargs]), with the receiver and nargs arguments on the stack.
FetchesMethod(method_id, has_args, nargs) ==
    /\ Fetch("Method")
    /\ InBounds(CurIns, NextPos, 1 + operand_width("Method"))
    /\ SubSeq(CurIns, NextPos + 1, NextPos + 1 + operand_width("Method"))
         = make("Method", <<method_id, has_args, nargs>>)
    /\ vm.sp \in (nargs + 1)..STACK_SIZE

\* C17: method dispatch decodes what the encoder wrote.  For the instruction
\* make(Method, [method_id, has_args, nargs]) the VM pops nargs arguments and
\* the receiver, pushes receiver.call_method(method_id, arguments in push
\* order, or none when has_args = 0), so sp changes by -nargs, and the next
\* fetch is the opcode after the instruction's 10 operand bytes.
C17_MethodDecode ==
    [][ \A method_id \in MethodIds, has_args \in {0, 1}, nargs \in 0..2 :
          FetchesMethod(method_id, has_args, nargs) =>
            /\ status' = "running"
            /\ vm'.sp = vm.sp - nargs
            /\ StackGet(vm'.stack, vm'.sp - 1)
                 = call_method(StackGet(vm.stack, vm.sp - 1 - nargs), method_id,
                       IF has_args = 1
                           THEN <<[i \in 1..nargs |->
                                     StackGet(vm.stack, vm.sp - nargs + i - 1)]>>
                           ELSE <<>>)
            /\ current_frame(vm').ip + 1
                 = NextPos + 1 + operand_width("Method")
      ]_vars

\* The loop is about to execute a Call whose callee, at stack[sp - 1 - nargs],
\* is a Closure that takes another number of parameters.
CallsWithWrongCount ==
    /\ Fetch("Call")
    /\ InBounds(CurIns, NextPos + 1, 1)
    /\ LET n == read_u8(CurIns, NextPos + 1)
       IN  /\ vm.sp >= 1 + n
           /\ vm.sp - 1 - n < STACK_SIZE
           /\ StackGet(vm.stack, vm.sp - 1 - n).kind = "Closure"
           /\ Func(StackGet(vm.stack, vm.sp - 1 - n)).num_parameters # n

\* C18: Call nargs on a Closure whose num_parameters differs from nargs
\* returns `wrong number of arguments. got: <nargs>, want: <num_parameters>`;
\* no frame is pushed and sp, frames_index and the stack are unchanged.
C18_WrongArgumentCount ==
    [][ CallsWithWrongCount =>
          LET n == read_u8(CurIns, NextPos + 1)
              callee == StackGet(vm.stack, vm.sp - 1 - n)
          IN  /\ status' = "err"
              /\ error' = <<"wrong number of arguments. got: ", n,
                            ", want: ", Func(callee).num_parameters>>
              /\ Len(vm'.frames) = Len(vm.frames)
              /\ vm'.frames_index = vm.frames_index
              /\ vm'.sp = vm.sp
              /\ vm'.stack = vm.stack
      ]_vars

\* A Call with two arguments on a closure of one parameter has failed.
C18_Witness ==
    /\ status = "err"
    /\ last.op = "Call"
    /\ last.arg = 2
    /\ error = <<"wrong number of arguments. got: ", 2, ", want: ", 1>>
    /\ vm.sp = last.sp
    /\ vm.frames_index = last.fi

\* The loop is about to execute a Call whose callee, at stack[sp - 1 - nargs],
\* is a Builtin, with the callee and the arguments on the stack.
CallsBuiltin ==
    /\ Fetch("Call")
    /\ InBounds(CurIns, NextPos + 1, 1)
    /\ LET n == read_u8(CurIns, NextPos + 1)
       IN  /\ vm.sp >= 1 + n
           /\ vm.sp <= STACK_SIZE
           /\ StackGet(vm.stack, vm.sp - 1 - n).kind = "Builtin"

\* C19: Call nargs on a Builtin callee pushes no frame: it invokes
\* func(caller, args) with args = stack[sp - nargs..sp] in the order they
\* were pushed (caller is Null for a builtin that is not bound) and puts the
\* single result in place of the callee and the arguments.  sp decreases by
\* exactly nargs, frames_index is unchanged.
C19_BuiltinCall ==
    [][ CallsBuiltin =>
          LET n == read_u8(CurIns, NextPos + 1)
              callee == StackGet(vm.stack, vm.sp - 1 - n)
              args == [i \in 1..n |-> StackGet(vm.stack, vm.sp - n + i - 1)]
          IN  /\ status' = "running"
              /\ vm'.sp = vm.sp - n
              /\ vm'.frames_index = vm.frames_index
              /\ Len(vm'.frames) = Len(vm.frames)
              /\ StackGet(vm'.stack, vm'.sp - 1)
                   = call_func(callee.func,
                               IF callee.caller = <<>> THEN NULL
                               ELSE callee.caller[1], args)
              /\ \A k \in 0..(vm.sp - n - 2) :
                   StackGet(vm'.stack, k) = StackGet(vm.stack, k)
      ]_vars

\* A built-in function has just been called with two different arguments.
C19_Witness ==
    /\ status = "running"
    /\ last.op = "Call"
    /\ last.arg = 2
    /\ vm.sp = last.sp - 2
    /\ vm.frames_index = last.fi
    /\ Top.kind = "BuiltinResult"
    /\ Top.caller = NULL
    /\ Top.args = <<IntObject(1), TrueObj>>

\* The loop is about to execute Div with two Ints on top of the stack, the
\* right one 0.
DividesByZero ==
    /\ Fetch("Div")
    /\ vm.sp \in 2..STACK_SIZE
    /\ StackGet(vm.stack, vm.sp - 2).kind = "Int"
    /\ Top = IntObject(0)

\* C20: division by an Int zero surfaces an error.  Div executed on two Int
\* operands whose right operand is 0 makes run() return Err with a message.
C20_DivisionByZero ==
    [][ DividesByZero => (status' = "err" /\ error' # <<>>) ]_vars

\* The remainder whose sign follows the dividend.
RemOfDividend(left, right) == left - right * bigint_div(left, right)

\* The loop is about to execute Mod with two Ints on top of the stack, the
\* right one not 0.
FetchesMod ==
    /\ Fetch("Mod")
    /\ vm.sp \in 2..STACK_SIZE
    /\ StackGet(vm.stack, vm.sp - 2).kind = "Int"
    /\ Top.kind = "Int"
    /\ Top.value # 0

\* C21: Mod is a required Int operation.  Executing Mod with two Int
\* operands on top of the stack pops both and pushes the Int left mod right,
\* whose sign follows the dividend (left).
C21_Mod ==
    [][ FetchesMod =>
          /\ status' = "running"
          /\ vm'.sp = vm.sp - 1
          /\ StackGet(vm'.stack, vm'.sp - 1)
               = IntObject(RemOfDividend(StackGet(vm.stack, vm.sp - 2).value,
                                         Top.value))
      ]_vars

\* The kind pairs execute_binary_operation has an arm for.
SupportedKinds ==
    { <<"Int", "Int">>, <<"Float", "Float">>, <<"Str", "Str">>,
      <<"Str", "Char">>, <<"Char", "Char">> }

\* The loop is about to execute the binary opcode op on two operands whose
\* kinds no arm supports.
FetchesUnsupported(op) ==
    /\ Fetch(op)
    /\ vm.sp \in 2..STACK_SIZE
    /\ <<StackGet(vm.stack, vm.sp - 2).kind, Top.kind>> \notin SupportedKinds

\* C22: a binary opcode (Add, Sub, Mul, Div, BitXor, BitAnd, BitOr, Shl, Shr)
\* whose operand kinds are not one of (Int, Int), (Float, Float), (Str, Str),
\* (Str, Char), (Char, Char) returns the error `unsupported types for binary
\* operation: <L> <op> <R>` naming the left kind, the operator and the right
\* kind, and pushes no result.
C22_UnsupportedTypes ==
    [][ \A op \in {"Add", "Sub", "Mul", "Div", "BitXor", "BitAnd", "BitOr",
                    "Shl", "Shr"} :
          FetchesUnsupported(op) =>
            /\ status' = "err"
            /\ error' = <<"unsupported types for binary operation: ",
                          StackGet(vm.stack, vm.sp - 2).kind, op, Top.kind>>
            /\ vm'.sp = vm.sp - 2
            /\ vm'.stack = vm.stack
      ]_vars

\* Shl on a Str (left) and an Int (right) has been refused.
C22_Witness ==
    /\ status = "err"
    /\ last.op = "Shl"
    /\ error = <<"unsupported types for binary operation: ", "Str", "Shl", "Int">>
    /\ vm.sp = last.sp - 2

\* The loop is about to execute Index with an Array below an Int on top of
\* the stack.
IndexesArray ==
    /\ Fetch("Index")
    /\ vm.sp \in 2..STACK_SIZE
    /\ StackGet(vm.stack, vm.sp - 2).kind = "Array"
    /\ Top.kind = "Int"

Slices(kinds) ==
    /\ Fetch("Index")
    /\ vm.sp \in 2..STACK_SIZE
    /\ StackGet(vm.stack, vm.sp - 2).kind \in kinds
    /\ Top.kind = "Range"

\* What the slicing rule gives for the object `left` and the Range `range`
\* with a positive step: the items at start, start + step, ... below stop.
SliceOf(left, range) ==
    LET items == IF left.kind = "Array" THEN left.elements ELSE left.value
        picked == [k \in 1..((range.stop - range.start + range.step - 1)
                                \div range.step) |->
                     items[range.start + (k - 1) * range.step + 1]]
    IN  IF left.kind = "Array" THEN ArrayObject(picked) ELSE StrObject(picked)

\* The slicing rule on the objects of `kinds`.
SliceRule(kinds) ==
    Slices(kinds) =>
      LET left == StackGet(vm.stack, vm.sp - 2)
          n == IF left.kind = "Array" THEN Len(left.elements)
               ELSE str_len(left.value)
      IN  IF Top.start < 0 \/ Top.stop < 0 \/ Top.start > Top.stop
             \/ Top.stop > n - 1
              THEN /\ status' = "err"
                   /\ error' = <<"cannot slice ",
                                 IF left.kind = "Array" THEN "ARRAY" ELSE "STR",
                                 " using this range">>
              ELSE Top.step > 0 =>
                     /\ status' = "running"
                     /\ vm'.sp = vm.sp - 1
                     /\ StackGet(vm'.stack, vm'.sp - 1) = SliceOf(left, Top)

\* C24: slicing.  Index on an Array or Str of length n with
\* Range{start, stop, step} returns `cannot slice <KIND> using this range`
\* when start < 0, stop < 0, start > stop or stop > n - 1; otherwise, for
\* step > 0, it pushes the elements at indices start, start + step,
\* start + 2*step, ... that are < stop, in that order (stop is exclusive).
C24_Slice == [][ SliceRule({"Array", "Str"}) ]_vars

\* C25: slicing an Array or Str with a Range whose step is negative and whose
\* start < stop (both within bounds) yields empty: it pushes an empty Array
\* (or empty Str) and returns no error.
C25_NegativeStepSlice ==
    [][ Slices({"Array", "Str"}) =>
          LET left == StackGet(vm.stack, vm.sp - 2)
              n == IF left.kind = "Array" THEN Len(left.elements)
                   ELSE str_len(left.value)
          IN  (0 <= Top.start /\ Top.start < Top.stop /\ Top.stop <= n - 1
               /\ Top.step < 0)
              => /\ status' = "running"
                 /\ vm'.sp = vm.sp - 1
                 /\ StackGet(vm'.stack, vm'.sp - 1)
                      = IF left.kind = "Array" THEN ArrayObject(<<>>)
                        ELSE StrObject(<<>>)
      ]_vars

\* C26: every Range value that the Range opcode pushes has step # 0, for
\* every combination of Int operands on the stack; consequently slicing an
\* Array or Str with any Range the VM can build terminates.
C26_RangeStepNonZero ==
    [][ /\ (Fetch("Range") /\ status' = "running")
            => StackGet(vm'.stack, vm'.sp - 1).step # 0
        /\ Slices({"Array", "Str"}) => status' # "hang"
      ]_vars

\* The loop is about to execute Dict with the keys and values of its n pairs
\* on the stack.
FetchesDict ==
    /\ Fetch("Dict")
    /\ InBounds(CurIns, NextPos + 1, 2)
    /\ 2 * read_u16(CurIns, NextPos + 1) <= vm.sp
    /\ vm.sp <= STACK_SIZE

\* The key and the value of pair j of the literal, counted from the top of
\* the stack.
LiteralKey(j) == StackGet(vm.stack, vm.sp - 2 - 2 * j)

LiteralValue(j) == StackGet(vm.stack, vm.sp - 1 - 2 * j)

\* The loop is about to execute Index on a Hash.
IndexesHash ==
    /\ Fetch("Index")
    /\ vm.sp \in 2..STACK_SIZE
    /\ StackGet(vm.stack, vm.sp - 2).kind = "Hash"

\* C27: only Int, Str, Char and Bool values are usable as hash keys.  A key
\* of any other kind, whether it appears in a hash literal built by the
\* Dict/Hash opcode or as the index applied to a Hash, makes run() return
\* `unusable as hash key: <KIND>`.
C27_UnusableHashKey ==
    [][ /\ FetchesDict =>
              LET bad == { j \in 0..(read_u16(CurIns, NextPos + 1) - 1) :
                             LiteralKey(j).kind
                               \notin {"Int", "Str", "Char", "Bool"} }
              IN  bad # {} =>
                    /\ status' = "err"
                    /\ \E j \in bad :
                         error' = <<"unusable as hash key: ", LiteralKey(j).kind>>
        /\ (IndexesHash /\ Top.kind \notin {"Int", "Str", "Char", "Bool"})
              => /\ status' = "err"
                 /\ error' = <<"unusable as hash key: ", Top.kind>>
      ]_vars

\* A hash literal with a Null key has been refused.
C27_Witness ==
    /\ status = "err"
    /\ last.op = "Dict"
    /\ last.arg = 2
    /\ error = <<"unusable as hash key: ", "Null">>

\* C28: hash lookup.  Index on a Hash with a hashable key pushes the value
\* of the pair stored under that key when the hash literal contained it, and
\* returns the error `key error: no entry found for key '<repr>'` (pushing
\* nothing) when no pair has that key.  The pairs of a Hash are those of its
\* literal: every key of the literal has a pair, with the value the literal
\* gave it (where a key is repeated, its first pair in the source).
C28_HashLookup ==
    [][ /\ (IndexesHash /\ Top.kind \in {"Int", "Str", "Char", "Bool"}) =>
              LET pairs == StackGet(vm.stack, vm.sp - 2).pairs
                  found == { i \in 1..Len(pairs) : pairs[i].key = Top }
              IN  IF found # {}
                      THEN /\ status' = "running"
                           /\ vm'.sp = vm.sp - 1
                           /\ \A i \in found :
                                StackGet(vm'.stack, vm'.sp - 1) = pairs[i].value
                      ELSE /\ status' = "err"
                           /\ error' = <<"key error: no entry found for key '",
                                         Top, "'">>
                           /\ vm'.sp = vm.sp - 2
                           /\ vm'.stack = vm.stack
        /\ (FetchesDict /\ status' = "running") =>
              LET n == read_u16(CurIns, NextPos + 1)
                  pairs == StackGet(vm'.stack, vm'.sp - 1).pairs
              IN  /\ vm'.sp = vm.sp - 2 * n + 1
                  /\ \A i \in 1..Len(pairs) :
                       \E j \in 0..(n - 1) : pairs[i].key = LiteralKey(j)
                  /\ \A j \in 0..(n - 1) :
                       \E i \in 1..Len(pairs) :
                         /\ pairs[i].key = LiteralKey(j)
                         /\ \/ pairs[i].value = LiteralValue(j)
                            \/ \E h \in (j + 1)..(n - 1) :
                                 LiteralKey(h) = LiteralKey(j)
      ]_vars

\* A lookup has just found the value stored under a Str key, and the hash
\* has a second pair.
C28_Witness ==
    /\ status = "running"
    /\ last.op = "Index"
    /\ vm.sp = last.sp - 1
    /\ vm.last_popped_stack_elem # <<>>
    /\ vm.last_popped_stack_elem[1].kind = "Hash"
    /\ Len(vm.last_popped_stack_elem[1].pairs) = 2
    /\ StackGet(vm.stack, vm.sp).kind = "Str"
    /\ Top = IntObject(5)

\* C29: encode/decode round trip.  For every opcode and every operand tuple
\* whose length equals the opcode's operand count and whose values fit the
\* operand widths (1, 2 or 8 bytes), read_operands(def, make(op,
\* operands)[1..]) returns exactly those operands together with a bytes-read
\* count equal to the sum of the widths.
C29_RoundTrip ==
    asm.stage = "read" =>
        /\ asm.read = asm.operands
        /\ asm.n = SumSeq(operand_widths(asm.op))

\* Method 65536 1 255, an operand of each of the widths 8, 1 and 1, has been
\* encoded and read back.
C29_Witness ==
    /\ asm.stage = "read"
    /\ asm.op = "Method"
    /\ asm.operands = <<65536, 1, 255>>
    /\ asm.read = <<65536, 1, 255>>
    /\ asm.n = 10

\* The unsigned integer that the w bytes of ins after position `offset` hold
\* in big-endian order.
RECURSIVE BigEndian(_, _, _)
BigEndian(ins, offset, w) ==
    IF w = 0 THEN 0
    ELSE BigEndian(ins, offset, w - 1) * 256 + ins[offset + w]

\* The offset of operand i in an instruction of these widths.
OperandOffset(widths, i) == 1 + SumSeq(SubSeq(widths, 1, i - 1))

\* C30: instruction encoding.  make(op, operands) returns exactly
\* 1 + (sum of the opcode's operand widths) bytes; byte 0 is the opcode's
\* value and each operand follows in order as a big-endian unsigned integer
\* of its defined width (e.g. Constant 65534 is [Constant, 255, 254] and
\* Closure 65534 255 is [Closure, 255, 254, 255]).
C30_Encoding ==
    asm.stage \in {"made", "read"} =>
        LET widths == operand_widths(asm.op)
        IN  /\ Len(asm.instruction) = 1 + SumSeq(widths)
            /\ asm.instruction[1] = OpByte(asm.op)
            /\ \A k \in 1..Len(asm.instruction) : asm.instruction[k] \in 0..255
            /\ \A i \in 1..Len(widths) :
                 BigEndian(asm.instruction, OperandOffset(widths, i), widths[i])
                   = asm.operands[i]
            /\ (asm.op = "Constant" /\ asm.operands = <<65534>>)
                 => asm.instruction = <<OpByte("Constant"), 255, 254>>
            /\ (asm.op = "Closure" /\ asm.operands = <<65534, 255>>)
                 => asm.instruction = <<OpByte("Closure"), 255, 254, 255>>

\* Closure 65534 255 has been encoded.
C30_Witness ==
    /\ asm.stage = "made"
    /\ asm.op = "Closure"
    /\ asm.operands = <<65534, 255>>
    /\ asm.instruction = <<OpByte("Closure"), 255, 254, 255>>

\* C31: Pop removes the top of the stack (sp decreases by 1) and records the
\* removed value as last_popped_stack_elem; PopNoRet removes the top of the
\* stack and leaves last_popped_stack_elem empty (None).
C31_PopAndPopNoRet ==
    [][ /\ (Fetch("Pop") /\ vm.sp \in 1..STACK_SIZE)
              => /\ status' = "running"
                 /\ vm'.sp = vm.sp - 1
                 /\ vm'.last_popped_stack_elem = <<Top>>
                 /\ vm'.stack = vm.stack
        /\ (Fetch("PopNoRet") /\ vm.sp \in 1..STACK_SIZE)
              => /\ status' = "running"
                 /\ vm'.sp = vm.sp - 1
                 /\ vm'.last_popped_stack_elem = <<>>
                 /\ vm'.stack = vm.stack
      ]_vars

\* PopNoRet has just removed a value that was not Null.
C31_Witness ==
    /\ status = "running"
    /\ last.op = "PopNoRet"
    /\ vm.sp = last.sp - 1
    /\ vm.last_popped_stack_elem = <<>>
    /\ StackGet(vm.stack, vm.sp) # NULL

\* The loop is about to execute op with its two operands on the stack.
FetchesBinary(op) == Fetch(op) /\ vm.sp \in 2..STACK_SIZE

\* C32: And and Or operate on two already-evaluated operands.  Each pops
\* right then left and pushes exactly one of the two operand values (sp
\* decreases by 1); And pushes right when left is truthy and left otherwise,
\* Or pushes left when left is truthy and right otherwise.
C32_AndOr ==
    [][ LET left == StackGet(vm.stack, vm.sp - 2)
            right == Top
            truthy == CASE left.kind = "Null" -> FALSE
                        [] left.kind = "Bool" -> left.value
                        [] left.kind = "Int" -> left.value # 0
                        [] left.kind = "Str" -> left.value # <<>>
                        [] left.kind = "Char" -> left.value # 0
                        [] left.kind = "Array" -> left.elements # <<>>
                        [] left.kind = "Hash" -> left.pairs # <<>>
                        [] OTHER -> TRUE
        IN  /\ FetchesBinary("And")
                  => /\ status' = "running"
                     /\ vm'.sp = vm.sp - 1
                     /\ StackGet(vm'.stack, vm'.sp - 1)
                          = IF truthy THEN right ELSE left
            /\ FetchesBinary("Or")
                  => /\ status' = "running"
                     /\ vm'.sp = vm.sp - 1
                     /\ StackGet(vm'.stack, vm'.sp - 1)
                          = IF truthy THEN left ELSE right
      ]_vars

\* And has just pushed its right operand, a Char, because the left one, an
\* Int, was truthy.
C32_Witness ==
    /\ status = "running"
    /\ last.op = "And"
    /\ vm.sp = last.sp - 1
    /\ vm.last_popped_stack_elem = <<IntObject(1)>>
    /\ Top = CharObject(98)

\* C33: the main frame is never popped.  In every state of run()
\* frames_index is at least 1 and equals the number of frames; a ReturnValue
\* or Return executed in the top-level frame does not remove that frame.
C33_MainFramePermanent ==
    /\ vm.frames_index >= 1
    /\ vm.frames_index = Len(vm.frames)

\* C34: locals are private to their frame.  An instruction that starts with
\* the operand stack above its frame's locals (sp >= bp + num_locals) leaves
\* every local slot bp + idx of that frame as it was, unless it is the
\* SetLocal idx of that frame, so that GetLocal idx pushes what the last
\* SetLocal idx stored; and executed in a callee frame it changes no slot
\* below the callee's slot bp - 1.
C34_LocalsPrivate ==
    [][ LET bp == Cur.bp
            nl == Func(Cur.cl).num_locals
            Changed == { i \in 0..(Len(vm.stack) + Len(vm'.stack)) :
                           StackGet(vm'.stack, i) # StackGet(vm.stack, i) }
        IN  (/\ Running /\ LoopCond
             /\ vm.sp >= bp + nl /\ vm.sp <= STACK_SIZE
             /\ status' = "running")
              => /\ \A i \in Changed :
                       i \in bp..(bp + nl - 1)
                          => /\ Fetch("SetLocal")
                             /\ read_u8(CurIns, NextPos + 1) = i - bp
                 /\ vm.frames_index >= 2 => \A i \in Changed : i >= bp - 1
      ]_vars

\* The loop is about to execute GetFree idx in a frame of a closure that
\* captured more than idx values, with room for one more value.
FetchesFree ==
    /\ Fetch("GetFree")
    /\ InBounds(CurIns, NextPos + 1, 1)
    /\ read_u8(CurIns, NextPos + 1) < Len(Cur.cl.free)
    /\ vm.sp < STACK_SIZE

\* C35: upvalues are captured by value.  GetFree idx executed in a frame of
\* closure C pushes C.free[idx], the value the Closure opcode copied into C
\* when it built C, whatever the stack holds by then; the closure of the
\* frame stays as it was built.
C35_GetFree ==
    [][ FetchesFree =>
          /\ status' = "running"
          /\ vm'.sp = vm.sp + 1
          /\ StackGet(vm'.stack, vm.sp) = Cur.cl.free[read_u8(CurIns, NextPos + 1) + 1]
          /\ vm'.frames[vm'.frames_index].cl = Cur.cl
      ]_vars

\* GetFree has pushed the captured 2 in a frame of the closure addTwo holds:
\* the frame that built the closure has returned, and the slot its argument
\* was in now holds the argument 3 of this call.
C35_Witness ==
    /\ status = "running"
    /\ last.op = "GetFree"
    /\ Top = IntObject(2)
    /\ vm.frames_index = 2
    /\ Cur.cl.free = <<IntObject(2)>>
    /\ StackGet(vm.stack, Cur.bp) = IntObject(3)

\* C36: a for-loop terminates after exactly `size` iterations.  In a loop
\* that executes one Next and tests JumpEnd once per iteration, Next is
\* never executed with current >= size, the k-th Next pushes get(k - 1) under
\* the advanced Iter, run() does not fail, and when it returns the Iter has
\* been popped with current = size, i.e. after size iterations.
C36_ForLoop ==
    bytecode \in ForPrograms =>
        /\ status \in {"running", "ok"}
        /\ (Fetch("Next") /\ vm.sp >= 1) => Top.current < Top.size
        /\ (status = "running" /\ last.op = "Next")
              => LET iter == StackGet(vm.stack, vm.sp - 2)
                 IN  Top = get(iter.iter, iter.current - 1)
        /\ status = "ok"
              => /\ vm.sp = 0
                 /\ vm.last_popped_stack_elem # <<>>
                 /\ vm.last_popped_stack_elem[1].kind = "Iter"
                 /\ vm.last_popped_stack_elem[1].current
                      = vm.last_popped_stack_elem[1].size

\* C37: NotEqual is the negation of Equal.  On every pair of operands on
\* which Equal succeeds, NotEqual succeeds too and pushes the negation of
\* what Equal pushes: for Int, Char, mixed-kind and Float pairs, a Float pair
\* whose distance is exactly f64::EPSILON included.
C37_NotEqualNegatesEqual ==
    ((Fetch("Equal") \/ Fetch("NotEqual")) /\ vm.sp \in 2..STACK_SIZE)
        => LET eq == execute_comparison(Fetched, "Equal")
               ne == execute_comparison(Fetched, "NotEqual")
           IN  eq.res = "Ok"
                 => /\ ne.res = "Ok"
                    /\ StackGet(ne.vm.stack, ne.vm.sp - 1).kind = "Bool"
                    /\ StackGet(ne.vm.stack, ne.vm.sp - 1).value
                         = ~StackGet(eq.vm.stack, eq.vm.sp - 1).value

\* C38: string indexing never crashes.  Index on a Str of n chars and an Int
\* i pushes the Char at i when 0 <= i < n; for every other i (negative,
\* i >= n, any i on the empty string) run() returns an error that begins
\* with `index out of bounds. got: <i>`.
C38_StringIndex ==
    [][ LET string == StackGet(vm.stack, vm.sp - 2)
            i == Top.value
        IN  (/\ Fetch("Index") /\ vm.sp \in 2..STACK_SIZE
             /\ string.kind = "Str" /\ Top.kind = "Int")
              => IF 0 <= i /\ i < Len(string.value)
                     THEN /\ status' = "running"
                          /\ vm'.sp = vm.sp - 1
                          /\ StackGet(vm'.stack, vm'.sp - 1)
                               = CharObject(string.value[i + 1])
                     ELSE /\ status' = "err"
                          /\ Len(error') >= 2
                          /\ error'[1] = "index out of bounds. got: "
                          /\ error'[2] = i
      ]_vars

\* C39: REPL session consistency.  A line that fails, with a compiler error
\* or a vm error, leaves symbol_table, constants and globals as they were
\* before that line; so between lines every global the symbol table holds
\* has its entry in globals.
C39_FailedLineNoEffect ==
    /\ repl.outcome \in {"compiler error", "vm error"}
          => /\ repl.symbol_table = repl.before.symbol_table
             /\ repl.constants = repl.before.constants
             /\ repl.globals = repl.before.globals
    /\ (repl.stage = "prompt" /\ repl.outcome # "")
          => Len(repl.symbol_table) <= Len(repl.globals)

\* C40: the disassembler terminates on every finite byte sequence.
\* instructions_to_string returns, also on a sequence with an undefined
\* opcode byte, which it reports before going on with the bytes after it.
C40_DisassemblerTerminates == <>(asm.stage = "returned")

====
